---- MODULE Spec2Model ----
(***************************************************************************)
(* The disk caches of src/parser/cache.py (EmbeddingCache,                 *)
(* ChunkResultCache, ParseResultCache) as state machines.                  *)
(*                                                                         *)
(* One cache object is modelled per behaviour: Init chooses its class      *)
(* (kind) and its ttl.  The cache directory is the function files, from    *)
(* file names to [data, mtime, src, by]; data is the sequence of blocks on *)
(* disk, mtime the clock value of the last write; src and by are history   *)
(* fields: the payload of the set that wrote the file completely, and the  *)
(* lookup inputs of that set.                                              *)
(*                                                                         *)
(* Spec  : one caller, every method runs to completion (sequential use).  *)
(* Time is counted in ticks; a set takes one tick, so the age a later call *)
(* computes for the entry is positive, as it is on a real clock.           *)
(* SpecConc : NumTasks callers share the object; each method advances one  *)
(* file-system call at a time and the calls of the tasks interleave.       *)
(* SpecDirs : the three global cache objects of get_embedding_cache,       *)
(* get_chunk_cache and get_parse_cache, each on the directory the          *)
(* environment names for it.                                               *)
(* SpecEnrich : a call of enrich_metadata (src/parser/metadata.py), one    *)
(* loop iteration per step, followed by a call on what it returned.        *)
(* SpecPdf : calls of parse_pdf (src/parser/llama_parser.py) on the parse  *)
(* cache, each running to its end.                                         *)
(* SpecHttp : requests to /parse-pdf and /parse (src/parser/main.py), each *)
(* handler running to its answer.                                          *)
(* Record constructors list their fields in the order TLC keeps them in,   *)
(* so that no record is ever rearranged after it has been built.           *)
(* Environment assumptions: removing an existing file succeeds; the only   *)
(* I/O failure is open() for writing, drawn as the input ioOk of set.      *)
(***************************************************************************)
EXTENDS Integers, Sequences, FiniteSets, TLC

\* ------------------------------------------------------------------ bounds
MaxTime == 3
MaxTTL == 1
\* The callers that share one cache object in SpecConc.
NumTasks == 2
\* The calls they make altogether, and how far the clock runs meanwhile.
MaxCalls == 3
MaxConcTime == 1
\* The longest chunk list passed to enrich_metadata.
MaxChunks == 3
\* How far the clock runs while parse_pdf is called.
MaxPdfTime == 2
\* The number of HTTP requests followed.
MaxRequests == 2

\* ----------------------------------------------------------- Python values
\* A Python value: t its type, s its text (scalars), d its members.
PyNone == [t |-> "none", s |-> "", d |-> <<>>]
PyInt(s) == [t |-> "int", s |-> s, d |-> <<>>]
PyStr(s) == [t |-> "str", s |-> s, d |-> <<>>]
\* True and False; s is the text json writes for them.
PyBool(b) == [t |-> "bool", s |-> IF b THEN "true" ELSE "false", d |-> <<>>]
\* A value neither json nor pickle can serialise (a generator, a lambda).
PyObj == [t |-> "object", s |-> "", d |-> <<>>]
PyList(items) == [t |-> "list", s |-> "", d |-> items]
PyTuple(items) == [t |-> "tuple", s |-> "", d |-> items]
\* A dict in insertion order: d is a sequence of [k, v] with distinct k.
PyDict(pairs) == [t |-> "dict", s |-> "", d |-> pairs]
KV(k, v) == [k |-> k, v |-> v]

\* The order Python's sorted() gives the dict keys the model uses.
KeyOrder ==
    <<"a", "b", "bogus", "disable_ocr", "hide_footers", "hide_headers", "language", "n",
      "output_tables_as_HTML", "page_separator", "preserve_layout_alignment_across_pages",
      "skip_diagonal_text", "target_pages", "x", "y">>

DictKeys(pairs) == [i \in 1..Len(pairs) |-> pairs[i].k]
DictGet(pairs, k) == pairs[CHOOSE i \in 1..Len(pairs) : pairs[i].k = k].v
HasKey(pairs, k) == \E i \in 1..Len(pairs) : pairs[i].k = k

sorted_keys(pairs) ==
    LET present(k) == HasKey(pairs, k)
    IN SelectSeq(KeyOrder, present)

\* v1 == v2 in Python: dicts are equal when they hold the same pairs,
\* whatever the order they were built in.
RECURSIVE PyEq(_, _)
PyEq(v1, v2) ==
    IF v1.t = "dict" /\ v2.t = "dict"
    THEN /\ Len(v1.d) = Len(v2.d)
         /\ \A i \in 1..Len(v1.d) :
               /\ HasKey(v2.d, v1.d[i].k)
               /\ PyEq(v1.d[i].v, DictGet(v2.d, v1.d[i].k))
    ELSE v1 = v2

\* json raises TypeError on a value it has no encoding for.
RECURSIVE json_serializable(_)
json_serializable(v) ==
    CASE v.t \in {"int", "str", "none", "bool"} -> TRUE
      [] v.t \in {"dict"} -> \A i \in 1..Len(v.d) : json_serializable(v.d[i].v)
      [] v.t \in {"list", "tuple"} -> \A i \in 1..Len(v.d) : json_serializable(v.d[i])
      [] OTHER -> FALSE

\* json.dumps(v, sort_keys=sort_keys) with the default separators, for a
\* serialisable scalar or dict (the configuration mappings).
RECURSIVE json_dumps(_, _)
json_dumps(v, sort_keys) ==
    CASE v.t \in {"int", "bool"} -> v.s
      [] v.t = "str" -> "\"" \o v.s \o "\""
      [] v.t = "none" -> "null"
      [] v.t = "dict" ->
            LET keys == IF sort_keys THEN sorted_keys(v.d) ELSE DictKeys(v.d)
                item(k) == "\"" \o k \o "\": " \o json_dumps(DictGet(v.d, k), sort_keys)
                RECURSIVE join(_)
                join(ks) == IF ks = <<>> THEN ""
                            ELSE IF Len(ks) = 1 THEN item(ks[1])
                            ELSE item(ks[1]) \o ", " \o join(Tail(ks))
            IN "{" \o join(keys) \o "}"
      [] OTHER -> "<TypeError>"

\* ------------------------------------------------------------- cache keys
\* hashlib.sha256(content.encode()).hexdigest(), taken as injective.
sha256(content) == "sha256<" \o content \o ">"

EmbeddingCache_get_cache_key(text, model) ==
    sha256(text \o ":" \o model)

ChunkResultCache_hash_text(text) == sha256(text)

\* Mutant of ChunkResultCache_get_cache_key: the keys are not sorted.
ChunkResultCache_get_cache_key_unsorted(text_hash, strategy, config) ==
    LET config_str == json_dumps(config, FALSE)
    IN sha256(text_hash \o ":" \o strategy \o ":" \o config_str)

ChunkResultCache_get_cache_key(text_hash, strategy, config) ==
    LET config_str == json_dumps(config, TRUE)
    IN sha256(text_hash \o ":" \o strategy \o ":" \o config_str)

ParseResultCache_get_cache_key(file_hash, config, parser_method) ==
    LET config_str == json_dumps(config, TRUE)
    IN sha256(file_hash \o ":" \o parser_method \o ":" \o config_str)

Kinds == {"embedding", "chunk", "parse"}

\* The extension _get_cache_path gives the entry files of each class.
Ext(kind) == IF kind = "embedding" THEN ".pkl" ELSE ".json"

\* The lookup inputs of get and set: [a, b, config], where (a, b) is
\* (text, model), (text, strategy) or (file_hash, parser_method).
In(a, b, config) == [b |-> b, config |-> config, a |-> a]

\* Computing key and path (the first two lines of every get and set):
\* raises when json.dumps(config) does.
key_raises(kind, inp) == kind # "embedding" /\ ~json_serializable(inp.config)

cache_key(kind, inp) ==
    CASE kind = "embedding" -> EmbeddingCache_get_cache_key(inp.a, inp.b)
      [] kind = "chunk" ->
            ChunkResultCache_get_cache_key(ChunkResultCache_hash_text(inp.a), inp.b, inp.config)
      [] kind = "parse" -> ParseResultCache_get_cache_key(inp.a, inp.config, inp.b)

get_cache_path(kind, inp) == [key |-> cache_key(kind, inp), ext |-> Ext(kind)]

\* ------------------------------------------------------- payload formats
\* The scalars payloads are built from.
ItemValues == {PyInt("1"), PyStr("x")}

\* The blocks that are not scalars; NUL is the zero fill of a file hole.
StructuralTokens == {"[", "]", ",", "[]", "{", "}", "PROTO", "LIST", "TUPLE", ".", "NUL"}

\* The token a serialiser writes for a scalar, and the reader's inverse.
enc(v) == json_dumps(v, FALSE)
\* The markdown texts a parse result may be.
Markdowns == {PyStr("# A"), PyStr("B")}
ScalarValues == ItemValues \cup Markdowns

dec(tok) ==
    IF \E v \in ScalarValues : enc(v) = tok
    THEN CHOOSE v \in ScalarValues : enc(v) = tok
    ELSE [t |-> "json", s |-> tok, d |-> <<>>]

Failed == [ok |-> FALSE, val |-> PyNone]
Loaded(v) == [ok |-> TRUE, val |-> v]

\* json.dump(chunks, f) for a list or tuple: the blocks reaching the file
\* and whether the dump completed.  The encoder yields the separator before
\* it meets a member it cannot encode, so a failed dump leaves a prefix.
RECURSIVE json_dump_members(_, _)
json_dump_members(items, first) ==
    IF items = <<>> THEN [ok |-> TRUE, blocks |-> <<"]">>]
    ELSE LET sep == IF first THEN <<>> ELSE <<",">>
             v == Head(items)
         IN IF ~json_serializable(v) THEN [ok |-> FALSE, blocks |-> sep]
            ELSE LET rest == json_dump_members(Tail(items), FALSE)
                 IN [ok |-> rest.ok, blocks |-> sep \o <<enc(v)>> \o rest.blocks]

json_dump_list(v) ==
    IF v.d = <<>> THEN [ok |-> TRUE, blocks |-> <<"[]">>]
    ELSE LET m == json_dump_members(v.d, TRUE)
         IN [ok |-> m.ok, blocks |-> <<"[">> \o m.blocks]

\* json.dump(cache_data, f) of ParseResultCache.set.
json_dump_entry(file_hash, config, markdown, parser_method, timestamp) ==
    LET head == <<"{", "\"file_hash\"", enc(PyStr(file_hash)),
                  "\"config\"", json_dumps(config, FALSE), "\"markdown\"">>
    IN IF ~json_serializable(markdown) THEN [ok |-> FALSE, blocks |-> head]
       ELSE [ok |-> TRUE,
             blocks |-> head \o <<enc(markdown), "\"parser_method\"",
                                  enc(PyStr(parser_method)), "\"timestamp\"",
                                  ToString(timestamp), "}">>]

\* json.load(f): the whole file must be one JSON document.
IsValueTok(tok) == tok \notin StructuralTokens

json_load(data) ==
    LET n == Len(data)
    IN CASE data = <<"[]">> -> Loaded(PyList(<<>>))
         [] n >= 3 /\ data[1] = "[" /\ data[n] = "]" /\ n % 2 = 1
            /\ \A i \in 2..(n - 1) :
                  IF i % 2 = 0 THEN IsValueTok(data[i]) ELSE data[i] = "," ->
               Loaded(PyList([i \in 1..((n - 1) \div 2) |-> dec(data[2 * i])]))
         [] n >= 2 /\ data[1] = "{" /\ data[n] = "}" /\ n % 2 = 0
            /\ \A i \in 2..(n - 1) : IsValueTok(data[i]) ->
               Loaded(PyDict([i \in 1..((n - 2) \div 2) |->
                                 KV(data[2 * i], dec(data[2 * i + 1]))]))
         [] OTHER -> Failed

\* data.get('markdown') of ParseResultCache.get: a list has no get
\* (AttributeError, caught); a dict without the key gives None.
entry_markdown(loaded) ==
    IF ~loaded.ok \/ loaded.val.t # "dict" THEN Failed
    ELSE IF HasKey(loaded.val.d, "\"markdown\"")
         THEN Loaded(DictGet(loaded.val.d, "\"markdown\""))
         ELSE Loaded(PyNone)

\* pickle.dump(embedding, f): the frame is written when the object has been
\* pickled, so an unpicklable member leaves the file as open() truncated it.
pickle_dump(v) ==
    IF \E i \in 1..Len(v.d) : v.d[i].t = "object"
    THEN [ok |-> FALSE, blocks |-> <<>>]
    ELSE [ok |-> TRUE,
          blocks |-> <<"PROTO", IF v.t = "tuple" THEN "TUPLE" ELSE "LIST">>
                     \o [i \in 1..Len(v.d) |-> enc(v.d[i])] \o <<".">>]

\* pickle.load(f): reads up to the first STOP and ignores what follows.
pickle_load(data) ==
    LET stops == {i \in 1..Len(data) : data[i] = "."}
    IN IF Len(data) < 3 \/ data[1] # "PROTO" \/ data[2] \notin {"LIST", "TUPLE"}
          \/ stops = {}
       THEN Failed
       ELSE LET j == CHOOSE i \in stops : \A k \in stops : i <= k
                items == [i \in 1..(j - 3) |-> dec(data[i + 2])]
            IN IF \E i \in 3..(j - 1) : ~IsValueTok(data[i]) THEN Failed
               ELSE Loaded(IF data[2] = "TUPLE" THEN PyTuple(items) ELSE PyList(items))

\* Mutant of dump: the last block never reaches the file.
dump_unflushed(kind, inp, payload, now) ==
    LET w == CASE kind = "embedding" -> pickle_dump(payload)
               [] kind = "chunk" -> json_dump_list(payload)
               [] kind = "parse" -> json_dump_entry(inp.a, inp.config, payload, inp.b, now)
    IN [ok |-> w.ok, blocks |-> SubSeq(w.blocks, 1, Len(w.blocks) - 1)]

\* What set writes: the blocks, and whether the dump completed.
dump(kind, inp, payload, now) ==
    CASE kind = "embedding" -> pickle_dump(payload)
      [] kind = "chunk" -> json_dump_list(payload)
      [] kind = "parse" -> json_dump_entry(inp.a, inp.config, payload, inp.b, now)

\* What get makes of the file's content (the body of its try block).
load(kind, data) ==
    CASE kind = "embedding" -> pickle_load(data)
      [] kind = "chunk" -> json_load(data)
      [] kind = "parse" -> entry_markdown(json_load(data))

\* ---------------------------------------------------- the cache directory
NoFiles == [n \in {} |-> 0]

Unlink(fs, name) == [n \in DOMAIN fs \ {name} |-> fs[n]]
WriteFile(fs, name, file) ==
    [n \in DOMAIN fs \cup {name} |-> IF n = name THEN file ELSE fs[n]]

\* Mutant of Expired: an entry whose age equals the TTL counts as expired.
Expired_at_ttl(file, now, T) == now - file.mtime >= T

\* file_age > self.ttl, with file_age = time.time() - st_mtime.
Expired(file, now, T) == now - file.mtime > T

\* cache_dir.glob("*.pkl") or glob("*.json").
Glob(fs, kind) == {n \in DOMAIN fs : n.ext = Ext(kind)}

\* The orders in which a directory scan may yield the names in S.
ScanOrders(S) ==
    {o \in [1..Cardinality(S) -> S] : \A i, j \in DOMAIN o : o[i] = o[j] => i = j}

\* ------------------------------------------------------------ the methods
Ret(fs, res, raised) == [res |-> res, raised |-> raised, files |-> fs]

\* Mutant of Cache_get: an entry that cannot be loaded is deleted.
Cache_get_drop_corrupt(fs, kind, T, now, inp) ==
    IF key_raises(kind, inp) THEN Ret(fs, PyNone, TRUE)
    ELSE LET cache_file == get_cache_path(kind, inp)
         IN IF cache_file \notin DOMAIN fs THEN Ret(fs, PyNone, FALSE)
            ELSE IF Expired(fs[cache_file], now, T)
                 THEN Ret(Unlink(fs, cache_file), PyNone, FALSE)
                 ELSE LET r == load(kind, fs[cache_file].data)
                      IN IF r.ok THEN Ret(fs, r.val, FALSE)
                         ELSE Ret(Unlink(fs, cache_file), PyNone, FALSE)

\* Mutant of Cache_get: an expired entry is reported as a miss but not deleted.
Cache_get_keep_expired(fs, kind, T, now, inp) ==
    IF key_raises(kind, inp) THEN Ret(fs, PyNone, TRUE)
    ELSE LET cache_file == get_cache_path(kind, inp)
         IN IF cache_file \notin DOMAIN fs THEN Ret(fs, PyNone, FALSE)
            ELSE IF Expired(fs[cache_file], now, T) THEN Ret(fs, PyNone, FALSE)
                 ELSE LET r == load(kind, fs[cache_file].data)
                      IN Ret(fs, IF r.ok THEN r.val ELSE PyNone, FALSE)

\* Mutant of Cache_get: a hit refreshes the entry's modification time.
Cache_get_touch(fs, kind, T, now, inp) ==
    IF key_raises(kind, inp) THEN Ret(fs, PyNone, TRUE)
    ELSE LET cache_file == get_cache_path(kind, inp)
         IN IF cache_file \notin DOMAIN fs THEN Ret(fs, PyNone, FALSE)
            ELSE IF Expired(fs[cache_file], now, T)
                 THEN Ret(Unlink(fs, cache_file), PyNone, FALSE)
                 ELSE LET r == load(kind, fs[cache_file].data)
                      IN Ret([fs EXCEPT ![cache_file] = [@ EXCEPT !.mtime = now]],
                             IF r.ok THEN r.val ELSE PyNone, FALSE)

\* EmbeddingCache.get, ChunkResultCache.get, ParseResultCache.get.
Cache_get(fs, kind, T, now, inp) ==
    IF key_raises(kind, inp) THEN Ret(fs, PyNone, TRUE)
    ELSE LET cache_file == get_cache_path(kind, inp)
         IN IF cache_file \notin DOMAIN fs THEN Ret(fs, PyNone, FALSE)
            ELSE IF Expired(fs[cache_file], now, T)
                 THEN Ret(Unlink(fs, cache_file), PyNone, FALSE)
                 ELSE LET r == load(kind, fs[cache_file].data)
                      IN Ret(fs, IF r.ok THEN r.val ELSE PyNone, FALSE)

\* EmbeddingCache.set, ChunkResultCache.set, ParseResultCache.set.
\* res reports whether the entry was written completely.
Cache_set(fs, kind, now, inp, payload, ioOk) ==
    IF key_raises(kind, inp) THEN Ret(fs, FALSE, TRUE)
    ELSE IF ~ioOk THEN Ret(fs, FALSE, FALSE)
    ELSE LET cache_file == get_cache_path(kind, inp)
             w == dump(kind, inp, payload, now)
             file == [data |-> w.blocks, mtime |-> now,
                      src |-> IF w.ok THEN Loaded(payload) ELSE Failed, by |-> inp]
         IN Ret(WriteFile(fs, cache_file, file), w.ok, FALSE)

\* The loop of clear_expired over the scan order.
RECURSIVE clear_expired_loop(_, _, _, _)
clear_expired_loop(fs, order, T, current_time) ==
    IF order = <<>> THEN fs
    ELSE LET cache_file == Head(order)
             fs1 == IF Expired(fs[cache_file], current_time, T)
                    THEN Unlink(fs, cache_file) ELSE fs
         IN clear_expired_loop(fs1, Tail(order), T, current_time)

\* Mutant of Cache_clear_expired: the scan stops after the first file.
Cache_clear_expired_first(fs, order, T, now) ==
    IF order = <<>> THEN fs ELSE clear_expired_loop(fs, <<Head(order)>>, T, now)

\* EmbeddingCache.clear_expired and its two copies; current_time is read
\* once, before the scan.
Cache_clear_expired(fs, order, T, now) == clear_expired_loop(fs, order, T, now)

RECURSIVE clear_all_loop(_, _)
clear_all_loop(fs, order) ==
    IF order = <<>> THEN fs
    ELSE clear_all_loop(Unlink(fs, Head(order)), Tail(order))

\* Mutant of Cache_clear_all: the scan stops after the first file.
Cache_clear_all_first(fs, order) ==
    IF order = <<>> THEN fs ELSE clear_all_loop(fs, <<Head(order)>>)

\* EmbeddingCache.clear_all and its two copies.
Cache_clear_all(fs, order) == clear_all_loop(fs, order)

\* EmbeddingCache.get_size: (number of files, total size), a block
\* counting as one unit of size.
RECURSIVE total_size(_, _)
total_size(fs, names) ==
    IF names = {} THEN 0
    ELSE LET n == CHOOSE n \in names : TRUE
         IN Len(fs[n].data) + total_size(fs, names \ {n})

EmbeddingCache_get_size(fs) ==
    LET found == Glob(fs, "embedding")
    IN <<Cardinality(found), total_size(fs, found)>>

\* ------------------------------------------------------------- the inputs
Cfg1(k, v) == PyDict(<<KV(k, v)>>)
Cfg2(k1, v1, k2, v2) == PyDict(<<KV(k1, v1), KV(k2, v2)>>)

\* Configuration mappings: the same pairs built in two orders, at the top
\* level and one level down, and one holding a value json cannot encode.
Configs ==
    { Cfg2("a", PyInt("1"), "n", Cfg2("x", PyInt("1"), "y", PyInt("2"))),
      Cfg2("n", Cfg2("y", PyInt("2"), "x", PyInt("1")), "a", PyInt("1")),
      Cfg1("a", PyInt("1")),
      Cfg1("a", PyObj) }

EmbeddingInputs == {In("a", "c", PyNone), In("a", "b:c", PyNone), In("a:b", "c", PyNone)}
ChunkInputs == {In(text, "semantic", config) : text \in {"a"}, config \in Configs}
ParseInputs == {In("h1", method, config) :
                   method \in {"llamaparse"}, config \in Configs}

Inputs(k) ==
    CASE k = "embedding" -> EmbeddingInputs
      [] k = "chunk" -> ChunkInputs
      [] k = "parse" -> ParseInputs

ListPayloads == {PyList(<<PyInt("1"), PyStr("x")>>), PyList(<<PyStr("x"), PyInt("1")>>)}

\* The payloads handed to set: a list of scalars, a tuple, and a list
\* holding a member no serialiser accepts; markdown texts for parse results.
Payloads(k) ==
    IF k = "parse" THEN Markdowns \cup {PyObj}
    ELSE {PyList(<<PyInt("1"), PyStr("x")>>), PyTuple(<<PyInt("1"), PyStr("x")>>),
          PyList(<<PyStr("x"), PyObj>>)}

\* The payload shapes each namespace is meant to hold: any picklable value
\* (embeddings), a list of JSON values (chunks), a markdown text (parses).
Supported(k, payload) ==
    CASE k = "embedding" ->
            payload.t \in {"list", "tuple"}
            /\ \A i \in 1..Len(payload.d) : payload.d[i] \in ItemValues
      [] k = "chunk" ->
            payload.t = "list" /\ \A i \in 1..Len(payload.d) : payload.d[i] \in ItemValues
      [] k = "parse" -> payload.t = "str"

\* -------------------------------------------------- metadata enrichment
\* (src/parser/metadata.py)  A text is its sequence of lines; a line is
\* [hashes, sep, text]: the number of '#' it starts with once stripped,
\* whether white space follows them, and the rest of the line, stripped.
Line(hashes, sep, text) == [text |-> text, sep |-> sep, hashes |-> hashes]
BlankLine == Line(0, FALSE, "")
BodyLine == Line(0, FALSE, "body")
Heading(level, text) == Line(level, TRUE, text)

\* A metadata dict: a function from field names to values.
NoFields == [f \in {} |-> 0]
Field(k, v) == [f \in {k} |-> v]
\* metadata.update(other)
Update(metadata, other) ==
    [f \in DOMAIN metadata \cup DOMAIN other |->
        IF f \in DOMAIN other THEN other[f] ELSE metadata[f]]

MaxHeadingLevel == 6
Levels == 1..MaxHeadingLevel
\* f'heading_{level}'
heading_key(level) == "heading_" \o ToString(level)
HeadingKeys == {heading_key(l) : l \in Levels}
\* int(key.split('_')[1]) of a heading_N key
key_level(key) == CHOOSE l \in Levels : heading_key(l) = key

\* re.match(r'^(#{1,6})\s+(.+)$', line.strip())
is_heading(line) == line.hashes \in Levels /\ line.sep /\ line.text # ""

\* text.strip().split('\n'): strip() removes the blank lines the text
\* starts and ends with.
RECURSIVE lstrip(_)
lstrip(lines) ==
    IF lines # <<>> /\ Head(lines) = BlankLine THEN lstrip(Tail(lines)) ELSE lines

RECURSIVE rstrip(_)
rstrip(lines) ==
    IF lines # <<>> /\ lines[Len(lines)] = BlankLine
    THEN rstrip(SubSeq(lines, 1, Len(lines) - 1)) ELSE lines

strip_split(text) == rstrip(lstrip(text))

\* The number of lines extract_heading_metadata looks at: lines[:5].
HeadingScanLines == 5

\* Mutant of extract_heading_metadata: every line is scanned.
extract_heading_metadata_unbounded(text) ==
    LET lines == strip_split(text)
        hits == {i \in 1..Len(lines) : is_heading(lines[i])}
    IN IF hits = {} THEN NoFields
       ELSE LET i == CHOOSE j \in hits : \A k \in hits : j <= k
            IN Update(Field(heading_key(lines[i].hashes), lines[i].text),
                      Field("heading_level", lines[i].hashes))

extract_heading_metadata(text) ==
    LET lines == strip_split(text)
        scanned == SubSeq(lines, 1, IF Len(lines) < HeadingScanLines
                                    THEN Len(lines) ELSE HeadingScanLines)
        hits == {i \in 1..Len(scanned) : is_heading(scanned[i])}
    IN IF hits = {} THEN NoFields
       ELSE LET i == CHOOSE j \in hits : \A k \in hits : j <= k
            IN Update(Field(heading_key(scanned[i].hashes), scanned[i].text),
                      Field("heading_level", scanned[i].hashes))

\* " > ".join(path_parts)
RECURSIVE join_path(_)
join_path(parts) ==
    IF parts = <<>> THEN ""
    ELSE IF Len(parts) = 1 THEN parts[1]
    ELSE parts[1] \o " > " \o join_path(Tail(parts))

\* build_section_path: the heading_1..heading_6 values that are present
\* and not empty, in level order.
build_section_path(metadata) ==
    LET present(l) == heading_key(l) \in DOMAIN metadata /\ metadata[heading_key(l)] # ""
        levels == SelectSeq([l \in Levels |-> l], present)
    IN join_path([i \in 1..Len(levels) |-> metadata[heading_key(levels[i])]])

\* calculate_token_count: the tokenizer is an external service; a count
\* that depends on the text alone stands for it.
calculate_token_count(text) == Len(text)

\* schema_field_names: None, or the field names to populate.
NoSchema == [names |-> {}, given |-> FALSE]
Schema(names) == [names |-> names, given |-> TRUE]
should_include_field(schema, field_name) == ~schema.given \/ field_name \in schema.names

\* metadata restricted to the fields the schema admits.
Filtered(schema, meta) ==
    [f \in {g \in DOMAIN meta : should_include_field(schema, g)} |-> meta[f]]

\* metadata['section_path'] = section_path, if section_path is not empty.
WithSectionPath(metadata) ==
    IF build_section_path(metadata) # ""
    THEN Update(metadata, Field("section_path", build_section_path(metadata)))
    ELSE metadata

\* current_headings[level] = value, then the pop of every deeper level.
\* Mutant of set_heading: the deeper levels are kept.
set_heading_keep_deeper(current_headings, level, value) ==
    [l \in DOMAIN current_headings \cup {level} |->
        IF l = level THEN value ELSE current_headings[l]]

set_heading(current_headings, level, value) ==
    [l \in {m \in DOMAIN current_headings : m < level} \cup {level} |->
        IF l = level THEN value ELSE current_headings[l]]

\* The loop over heading_meta.items() that updates the heading context.
update_context(current_headings, heading_meta) ==
    LET keys == DOMAIN heading_meta \cap HeadingKeys
    IN IF keys = {} THEN current_headings
       ELSE LET key == CHOOSE k \in keys : TRUE
            IN set_heading(current_headings, key_level(key), heading_meta[key])

\* The heading_N fields written from the context, through the schema.
context_fields(schema, current_headings) ==
    [f \in {heading_key(l) : l \in {m \in DOMAIN current_headings :
                                       should_include_field(schema, heading_key(m))}} |->
        current_headings[key_level(f)]]

\* The fields every strategy attempts: token_count when absent, then
\* position_in_document and total_chunks.
common_fields(metadata, text, idx, n, schema) ==
    LET m1 == IF "token_count" \notin DOMAIN metadata
                 /\ should_include_field(schema, "token_count")
              THEN Update(metadata, Field("token_count", calculate_token_count(text)))
              ELSE metadata
        m2 == IF should_include_field(schema, "position_in_document")
              THEN Update(m1, Field("position_in_document", idx)) ELSE m1
    IN IF should_include_field(schema, "total_chunks")
       THEN Update(m2, Field("total_chunks", n)) ELSE m2

\* Mutant of by_heading_fields: section_path is rebuilt even when present.
by_heading_fields_rebuild(metadata, schema) ==
    IF should_include_field(schema, "section_path")
    THEN WithSectionPath(metadata) ELSE metadata

\* The branch strategy == 'by_heading'.
by_heading_fields(metadata, schema) ==
    IF "section_path" \notin DOMAIN metadata /\ should_include_field(schema, "section_path")
    THEN WithSectionPath(metadata) ELSE metadata

\* The branch strategy == 'hierarchical'.
hierarchical_fields(metadata, text, schema) ==
    IF "heading_level" \in DOMAIN metadata THEN metadata
    ELSE LET heading_meta == extract_heading_metadata(text)
             merged == Update(metadata, Filtered(schema, heading_meta))
         IN IF heading_meta # NoFields /\ should_include_field(schema, "section_path")
            THEN WithSectionPath(merged) ELSE merged

\* Mutant of other_fields: nothing is filtered by the schema.
other_fields_unfiltered(metadata, text, schema, current_headings) ==
    LET heading_meta == extract_heading_metadata(text)
        context == update_context(current_headings, heading_meta)
        merged == Update(metadata, heading_meta)
    IN IF context = NoFields THEN merged
       ELSE WithSectionPath(Update(merged, context_fields(NoSchema, context)))

\* Mutant of other_fields: section_path is built before the context is
\* written into the metadata.
other_fields_path_first(metadata, text, schema, current_headings) ==
    LET heading_meta == extract_heading_metadata(text)
        context == update_context(current_headings, heading_meta)
        merged == Update(metadata, Filtered(schema, heading_meta))
    IN IF context = NoFields THEN merged
       ELSE LET pathed == IF should_include_field(schema, "section_path")
                          THEN WithSectionPath(merged) ELSE merged
            IN Update(pathed, context_fields(schema, context))

\* The else branch (every other strategy), given the context as the chunks
\* before left it.
other_fields(metadata, text, schema, current_headings) ==
    LET heading_meta == extract_heading_metadata(text)
        context == update_context(current_headings, heading_meta)
        merged == Update(metadata, Filtered(schema, heading_meta))
    IN IF context = NoFields THEN merged
       ELSE LET written == Update(merged, context_fields(schema, context))
            IN IF should_include_field(schema, "section_path")
               THEN WithSectionPath(written) ELSE written

\* Mutant of enrich_chunk: position_in_document counts from one.
enrich_chunk_one_based(chunk, idx, n, strategy, schema, current_headings) ==
    LET m == common_fields(chunk.metadata, chunk.text, idx + 1, n, schema)
    IN [text |-> chunk.text, metadata |-> m]

\* One iteration of the loop of enrich_metadata: the chunk appended to
\* enriched.
enrich_chunk(chunk, idx, n, strategy, schema, current_headings) ==
    LET m == common_fields(chunk.metadata, chunk.text, idx, n, schema)
    IN [text |-> chunk.text,
        metadata |->
            CASE strategy = "by_heading" -> by_heading_fields(m, schema)
              [] strategy = "hierarchical" -> hierarchical_fields(m, chunk.text, schema)
              [] OTHER -> other_fields(m, chunk.text, schema, current_headings)]

\* The heading context after that iteration.
next_context(chunk, strategy, current_headings) ==
    IF strategy \in {"by_heading", "hierarchical"} THEN current_headings
    ELSE update_context(current_headings, extract_heading_metadata(chunk.text))

\* What the iteration asked extract_heading_metadata, and its answer.
Extracted(called, text, meta) == [text |-> text, meta |-> meta, called |-> called]
NoExtract == Extracted(FALSE, <<>>, NoFields)

extract_call(chunk, strategy) ==
    IF strategy = "by_heading"
       \/ (strategy = "hierarchical" /\ "heading_level" \in DOMAIN chunk.metadata)
    THEN NoExtract
    ELSE Extracted(TRUE, chunk.text, extract_heading_metadata(chunk.text))

Strategies == {"by_heading", "hierarchical", "semantic"}

Schemas ==
    {NoSchema, Schema({}), Schema({"token_count"}), Schema({"section_path"}),
     Schema({"section_path", "heading_1", "heading_2", "heading_3", "heading_level"}),
     Schema({"position_in_document", "total_chunks"})}

Chunk(text, metadata) == [text |-> text, metadata |-> metadata]

\* The chunks a caller may pass: each has its own metadata dict.
Chunks ==
    {Chunk(<<Heading(1, "A"), BodyLine>>, NoFields),
     Chunk(<<BodyLine>>, NoFields),
     Chunk(<<Heading(2, "B"), Heading(1, "X")>>, NoFields),
     Chunk(<<BodyLine>>, Field("heading_2", "Z")),
     Chunk(<<Heading(1, "C")>>,
           Update(Update(Field("heading_1", "Old"), Field("section_path", "custom")),
                  Update(Field("position_in_document", 9),
                         Update(Field("total_chunks", 9), Field("token_count", 7))))),
     Chunk(<<BlankLine, BlankLine, BlankLine, BlankLine, BlankLine, Heading(1, "C")>>,
           NoFields),
     Chunk(<<BodyLine, BodyLine, BodyLine, BodyLine, BodyLine, Heading(1, "C")>>, NoFields),
     Chunk(<<Line(1, FALSE, "tag"), Line(7, TRUE, "G"), BodyLine, BodyLine, Heading(3, "D"),
             Heading(1, "E")>>,
           Update(Field("heading_level", 1), Field("heading_1", "A")))}

\* ------------------------------------------------------------ PDF parsing
\* (src/parser/llama_parser.py)  The fields of ParseConfig in declaration
\* order: name, type and default.  The text of a string is written as json
\* writes it.
ConfigField(name, type, default) == [name |-> name, type |-> type, default |-> default]

ParseConfig_fields ==
    <<ConfigField("language", "str", PyStr("en")),
      ConfigField("disable_ocr", "bool", PyBool(FALSE)),
      ConfigField("skip_diagonal_text", "bool", PyBool(FALSE)),
      ConfigField("target_pages", "optional_str", PyNone),
      ConfigField("page_separator", "str", PyStr("\\n---\\n")),
      ConfigField("output_tables_as_HTML", "bool", PyBool(FALSE)),
      ConfigField("preserve_layout_alignment_across_pages", "bool", PyBool(FALSE)),
      ConfigField("hide_headers", "bool", PyBool(FALSE)),
      ConfigField("hide_footers", "bool", PyBool(FALSE))>>

FieldNames == {ParseConfig_fields[i].name : i \in DOMAIN ParseConfig_fields}

\* The validation of one value against a field type: a str field takes a
\* str; an Optional[str] field a str or None; a bool field a bool, the
\* ints 0 and 1 and the strings that spell a truth value.
TrueStrings == {"1", "on", "t", "true", "y", "yes"}
FalseStrings == {"0", "off", "f", "false", "n", "no"}

validate_field(type, v) ==
    CASE type = "str" -> IF v.t = "str" THEN Loaded(v) ELSE Failed
      [] type = "optional_str" -> IF v.t \in {"str", "none"} THEN Loaded(v) ELSE Failed
      [] type = "bool" ->
            CASE v.t = "bool" -> Loaded(v)
              [] v.t = "int" /\ v.s \in {"0", "1"} -> Loaded(PyBool(v.s = "1"))
              [] v.t = "str" /\ v.s \in TrueStrings -> Loaded(PyBool(TRUE))
              [] v.t = "str" /\ v.s \in FalseStrings -> Loaded(PyBool(FALSE))
              [] OTHER -> Failed

\* ParseConfig(**config).model_dump(): Failed when the constructor raises
\* (config is no mapping, holds a key that is no field, or a value its
\* field does not take), else every field with its value or its default.
ParseConfig(config) ==
    IF config.t # "dict" THEN Failed
    ELSE IF \E i \in 1..Len(config.d) : config.d[i].k \notin FieldNames THEN Failed
    ELSE LET value(f) == IF HasKey(config.d, f.name)
                         THEN validate_field(f.type, DictGet(config.d, f.name))
                         ELSE Loaded(f.default)
         IN IF \E i \in DOMAIN ParseConfig_fields : ~value(ParseConfig_fields[i]).ok
            THEN Failed
            ELSE Loaded(PyDict([i \in DOMAIN ParseConfig_fields |->
                                   KV(ParseConfig_fields[i].name,
                                      value(ParseConfig_fields[i]).val)]))

DEFAULT_PARSE_CONFIG == ParseConfig(PyDict(<<>>)).val

\* Mutant of resolve_config: the fields of the caller's mapping that
\* validate are kept when others do not.
resolve_config_keep_valid(config) ==
    IF config = PyNone \/ config.t # "dict" THEN DEFAULT_PARSE_CONFIG
    ELSE LET given(f) == HasKey(config.d, f.name)
                         /\ validate_field(f.type, DictGet(config.d, f.name)).ok
         IN PyDict([i \in DOMAIN ParseConfig_fields |->
                       KV(ParseConfig_fields[i].name,
                          IF given(ParseConfig_fields[i])
                          THEN validate_field(ParseConfig_fields[i].type,
                                              DictGet(config.d, ParseConfig_fields[i].name)).val
                          ELSE ParseConfig_fields[i].default)])

\* "Validate and merge config with defaults": the mapping parse_pdf goes on
\* with.
resolve_config(config) ==
    IF config = PyNone THEN DEFAULT_PARSE_CONFIG
    ELSE LET parse_config == ParseConfig(config)
         IN IF parse_config.ok THEN parse_config.val ELSE DEFAULT_PARSE_CONFIG

\* _hash_file: the SHA256 of the file's content.
hash_file(content) == sha256(content)

\* get_pdf_page_count: the number of pages PdfReader finds, 0 when it
\* raises; a file's content is named after its format.
get_pdf_page_count(content) == IF content = "pdf1" THEN 2 ELSE IF content = "pdf2" THEN 1 ELSE 0

\* What LlamaParse does when called: it raises, or returns documents whose
\* texts join to markdown.
Engine(ok, markdown) == [ok |-> ok, markdown |-> markdown]

\* What a call of parse_pdf did: the exception it raised ("" when it
\* returned), the ParseResult, whether it read the cache and with which
\* lookup, whether and with which options it called the engine, whether it
\* called cache.set and whether the entry was written completely.
PdfResult(fs, raised, markdown, page_count, lookup, read, called, options, set, stored) ==
    [markdown |-> markdown, raised |-> raised, files |-> fs, called |-> called,
     page_count |-> page_count, lookup |-> lookup, read |-> read, options |-> options,
     set |-> set, stored |-> stored]

\* not api_key
NoKey(api_key) == api_key = PyNone \/ api_key = PyStr("")

\* ---------------------------------------------------------------- state
VARIABLES
    kind,       \* the class of the cache object
    ttl,        \* self.ttl
    clock,      \* time.time()
    files,      \* the entry files of self.cache_dir
    last,       \* the last call completed by the caller, and what it returned
    cleared,    \* history: on when clear_all has run and no set has been
                \* called since; removed counts the files those runs deleted
    task,       \* SpecConc: where each caller stands in the method it runs
    offered,    \* SpecConc, history: the (path, payload) pairs given to set
    cache_dir,  \* SpecDirs: the directory each global cache instance was given
    disk,       \* SpecDirs: the entry files of every directory
    owner,      \* SpecDirs, history: the namespace whose set wrote each file
    did,        \* SpecDirs: the last call made, on which namespace
    strategy,   \* SpecEnrich: the arguments strategy and
    schema,     \*   schema_field_names of the enrich_metadata call,
    total,      \*   len(chunks),
    chunks,     \*   and the chunks the loop has taken so far, as passed
    idx,        \* SpecEnrich: the number of iterations done
    current_headings,  \* SpecEnrich: the heading context
    enriched,   \* SpecEnrich: the list being returned
    extracted,  \* SpecEnrich: the last call of extract_heading_metadata
    first,      \* SpecEnrich, history: what the first call returned
    round,      \* SpecEnrich: 1 in the first call, 2 in the call on its result
    req,        \* SpecPdf: the last call of parse_pdf and what it did
    tmp_left,   \* SpecHttp: the temp files of answered requests still on disk
    served,     \* SpecHttp: the number of requests answered
    resp        \* SpecHttp: the last request and how it was answered

\* The state of the three global instances (get_embedding_cache,
\* get_chunk_cache, get_parse_cache) and their directories.
dirvars == <<cache_dir, disk, owner, did>>

\* The state of a call of enrich_metadata.
enrichvars == <<strategy, schema, total, chunks, idx, current_headings, enriched,
                extracted, first, round>>

\* The state of the callers of parse_pdf.
pdfvars == <<req>>

\* The state of the HTTP service of main.py.
httpvars == <<tmp_left, served, resp>>

vars == <<kind, ttl, clock, files, last, cleared, task, offered, dirvars, enrichvars,
          pdfvars, httpvars>>

NoInput == In("", "", PyNone)

\* Two calls name the same lookup: equal strings and equal mappings.
SameInput(i1, i2) == i1.a = i2.a /\ i1.b = i2.b /\ PyEq(i1.config, i2.config)

\* A completed call: op and its inputs inp (and the payload arg of a set);
\* res the value returned, raised whether it raised instead; ok: a set
\* wrote its entry completely; prev: the inputs of the set a get followed at
\* once (NoInput otherwise); removed: the files the call deleted; n, size:
\* the pair get_size returned.
Call(op, inp, arg, res, raised, ok, prev, removed, n, size) ==
    [inp |-> inp, ok |-> ok, n |-> n, res |-> res, raised |-> raised,
     op |-> op, arg |-> arg, prev |-> prev, removed |-> removed, size |-> size]

NoCall == Call("none", NoInput, PyNone, PyNone, FALSE, FALSE, NoInput, 0, 0, 0)

Removed(before, after) == Cardinality(DOMAIN before \ DOMAIN after)

\* The directories the environment may name, and the defaults of
\* EMBEDDING_CACHE_DIR, CHUNK_CACHE_DIR and PARSE_CACHE_DIR.
Dirs == {"./cache/embeddings", "./cache/chunks", "./cache/parses"}
DefaultDir ==
    [k \in Kinds |-> CASE k = "embedding" -> "./cache/embeddings"
                       [] k = "chunk" -> "./cache/chunks"
                       [] k = "parse" -> "./cache/parses"]

\* The TTL of each global instance, in ticks: a day for chunk results, a
\* week for embeddings and parse results.
DefaultTTL == [k \in Kinds |-> IF k = "chunk" THEN 1 ELSE 2]

DirCall(ns, op, inp, res, raised) ==
    [inp |-> inp, res |-> res, raised |-> raised, op |-> op, ns |-> ns]
NoDirCall == DirCall("none", "none", NoInput, PyNone, FALSE)

Tasks == 1..NumTasks

\* A caller between two calls; op, inp, res, raised and overlap describe the
\* call it completed last, calls counts the calls it has made.
Idle ==
    [inp |-> NoInput, now |-> 0, res |-> PyNone, raised |-> FALSE, names |-> <<>>,
     op |-> "none", pc |-> "idle", todo |-> <<>>, off |-> 0, overlap |-> FALSE,
     calls |-> 0]

\* A call of parse_pdf: its arguments, whether the API key was set, what
\* it did (a PdfResult without the directory), and a bit that flips with
\* every call.
PdfCallRec(content, config, has_key, res, seq) ==
    [content |-> content, config |-> config, res |-> res, has_key |-> has_key, seq |-> seq]

NoPdfResult ==
    [markdown |-> PyNone, raised |-> "", called |-> FALSE, page_count |-> 0,
     lookup |-> NoInput, read |-> FALSE, options |-> PyNone, set |-> FALSE, stored |-> FALSE]

NoPdfCall == PdfCallRec("", PyNone, FALSE, NoPdfResult, 0)

\* No call of parse_pdf has been made.
NoPdf == req = NoPdfCall

\* A request and its answer: the endpoint, the parser_method form field,
\* the suffix given to the temp file, the status code, whether a temp file
\* was created, which parser function was given the temp file, and whether
\* LlamaParse was invoked.
HttpRec(endpoint, parser_method, suffix, status, created, parser, engine) ==
    [parser_method |-> parser_method, endpoint |-> endpoint, suffix |-> suffix,
     status |-> status, created |-> created, parser |-> parser, engine |-> engine]

NoHttpRec == HttpRec("", "", "", 0, FALSE, "none", FALSE)

\* No request has been made.
NoHttp ==
    /\ tmp_left = 0
    /\ served = 0
    /\ resp = NoHttpRec

\* No call of enrich_metadata is in progress.
NoEnrich ==
    /\ strategy = "semantic"
    /\ schema = NoSchema
    /\ total = 0
    /\ chunks = <<>>
    /\ idx = 0
    /\ current_headings = NoFields
    /\ enriched = <<>>
    /\ extracted = NoExtract
    /\ first = <<>>
    /\ round = 1

Init ==
    /\ kind \in Kinds
    /\ ttl \in 0..MaxTTL
    /\ clock = 0
    /\ files = NoFiles
    /\ last = NoCall
    /\ cleared = [removed |-> 0, on |-> FALSE]
    /\ task = [t \in Tasks |-> Idle]
    /\ offered = {}
    /\ cache_dir = DefaultDir
    /\ disk = [d \in Dirs |-> NoFiles]
    /\ owner = [d \in Dirs |-> NoFiles]
    /\ did = NoDirCall
    /\ NoEnrich
    /\ NoPdf
    /\ NoHttp

\* The system clock advances, up to max.
Tick(max) ==
    /\ clock < max
    /\ clock' = clock + 1
    /\ UNCHANGED <<kind, ttl, files, last, cleared, task, offered, dirvars, enrichvars, pdfvars, httpvars>>

\* cache.get(...): prev records the set the call follows at once, when
\* that set named the same lookup and wrote its entry completely.
Get(inp) ==
    LET r == Cache_get(files, kind, ttl, clock, inp)
        follows == last.op = "set" /\ last.ok /\ SameInput(last.inp, inp)
    IN /\ files' = r.files
       /\ last' = Call("get", inp, PyNone, r.res, r.raised, FALSE,
                       IF follows THEN last.inp ELSE NoInput,
                       Removed(files, r.files), 0, 0)
       /\ UNCHANGED <<kind, ttl, clock, cleared, task, offered, dirvars, enrichvars, pdfvars, httpvars>>

\* cache.set(...).  The write takes time: st_mtime is stamped from a clock
\* that never runs ahead of time.time(), so every later call reads a clock
\* past the mtime of the file written here.
Set(inp, payload, ioOk) ==
    LET r == Cache_set(files, kind, clock, inp, payload, ioOk)
    IN /\ clock < MaxTime
       /\ clock' = clock + 1
       /\ files' = r.files
       /\ last' = Call("set", inp, payload, PyNone, r.raised, r.res, NoInput, 0, 0, 0)
       /\ cleared' = [removed |-> 0, on |-> FALSE]
       /\ UNCHANGED <<kind, ttl, task, offered, dirvars, enrichvars, pdfvars, httpvars>>

\* cache.clear_expired()
ClearExpired(order) ==
    /\ files' = Cache_clear_expired(files, order, ttl, clock)
    /\ last' = Call("clear_expired", NoInput, PyNone, PyNone, FALSE, FALSE, NoInput,
                    Removed(files, files'), 0, 0)
    /\ UNCHANGED <<kind, ttl, clock, cleared, task, offered, dirvars, enrichvars, pdfvars, httpvars>>

\* cache.clear_all()
ClearAll(order) ==
    /\ files' = Cache_clear_all(files, order)
    /\ last' = Call("clear_all", NoInput, PyNone, PyNone, FALSE, FALSE, NoInput,
                    Removed(files, files'), 0, 0)
    /\ cleared' = [removed |-> cleared.removed + Removed(files, files'), on |-> TRUE]
    /\ UNCHANGED <<kind, ttl, clock, task, offered, dirvars, enrichvars, pdfvars, httpvars>>

\* cache.get_size(), a method of EmbeddingCache alone.
GetSize ==
    /\ kind = "embedding"
    /\ LET r == EmbeddingCache_get_size(files)
       IN last' = Call("get_size", NoInput, PyNone, PyNone, FALSE, FALSE, NoInput,
                       0, r[1], r[2])
    /\ UNCHANGED <<kind, ttl, clock, files, cleared, task, offered, dirvars, enrichvars, pdfvars, httpvars>>

Next ==
    \/ Tick(MaxTime)
    \/ \E inp \in Inputs(kind) : Get(inp)
    \/ \E inp \in Inputs(kind), payload \in Payloads(kind), ioOk \in BOOLEAN :
          Set(inp, payload, ioOk)
    \/ \E order \in ScanOrders(Glob(files, kind)) : ClearExpired(order)
    \/ \E order \in ScanOrders(Glob(files, kind)) : ClearAll(order)
    \/ GetSize

Spec == Init /\ [][Next]_vars

\* ------------------------------------------------- concurrent callers
\* The lookups and payloads the concurrent callers use: one key in each
\* namespace, two complete payloads of the same length.
ConcInputs(k) ==
    CASE k = "embedding" -> {In("a", "c", PyNone)}
      [] k = "chunk" -> {In("a", "semantic", Cfg1("a", PyInt("1")))}
      [] k = "parse" -> {In("h1", "llamaparse", Cfg1("a", PyInt("1")))}

ConcPayloads(k) == IF k = "parse" THEN Markdowns ELSE ListPayloads

\* f.write at offset off of a file opened with "w": the blocks replace what
\* is there and extend the file; a file truncated below off gets a hole.
PutAt(data, off, blocks) ==
    LET padded == IF Len(data) < off
                  THEN data \o [i \in 1..(off - Len(data)) |-> "NUL"]
                  ELSE data
        end == off + Len(blocks)
        n == IF Len(padded) > end THEN Len(padded) ELSE end
    IN [i \in 1..n |-> IF i > off /\ i <= end THEN blocks[i - off] ELSE padded[i]]

\* What one write call carries to the file: pickle.dump hands over its
\* frame whole, json.dump the chunks of its encoder one buffer at a time.
write_size(k, todo) == IF k = "embedding" THEN Len(todo) ELSE 1

\* The call returns (res) or raises to its caller (raised).
Return(rec, res, raised) ==
    [rec EXCEPT !.pc = "idle", !.res = res, !.raised = raised,
                !.todo = <<>>, !.off = 0, !.names = <<>>, !.now = 0]

\* A caller that may make another call, and its record as the call starts.
RECURSIVE CallsMade(_)
CallsMade(ts) ==
    IF ts = {} THEN 0
    ELSE LET t == CHOOSE u \in ts : TRUE IN task[t].calls + CallsMade(ts \ {t})

CanCall(t) == task[t].pc = "idle" /\ CallsMade(Tasks) < MaxCalls
Start(t, op, inp) == [Idle EXCEPT !.op = op, !.inp = inp, !.calls = task[t].calls + 1]

\* Another caller is inside a set for the file at path.
SetInProgress(t, path) ==
    \E u \in Tasks \ {t} :
        task[u].pc = "set_write" /\ get_cache_path(kind, task[u].inp) = path

ConcUnchanged == UNCHANGED <<kind, ttl, clock, last, cleared, dirvars, enrichvars, pdfvars, httpvars>>

\* get: the key, then cache_file.exists().
GetBegin(t, inp) ==
    /\ CanCall(t)
    /\ LET rec == Start(t, "get", inp)
           path == get_cache_path(kind, inp)
       IN task' = [task EXCEPT ![t] =
              IF key_raises(kind, inp) THEN Return(rec, PyNone, TRUE)
              ELSE IF path \notin DOMAIN files THEN Return(rec, PyNone, FALSE)
              ELSE [rec EXCEPT !.pc = "get_stat", !.overlap = SetInProgress(t, path)]]
    /\ UNCHANGED <<files, offered>>
    /\ ConcUnchanged

\* get: file_age = time.time() - cache_file.stat().st_mtime, outside the
\* try block: stat() of a file that is gone raises FileNotFoundError.
GetStat(t) ==
    /\ task[t].pc = "get_stat"
    /\ LET path == get_cache_path(kind, task[t].inp)
       IN task' = [task EXCEPT ![t] =
              IF path \notin DOMAIN files THEN Return(@, PyNone, TRUE)
              ELSE IF Expired(files[path], clock, ttl) THEN [@ EXCEPT !.pc = "get_unlink"]
              ELSE [@ EXCEPT !.pc = "get_read"]]
    /\ UNCHANGED <<files, offered>>
    /\ ConcUnchanged

\* get: cache_file.unlink() of the expired entry, outside the try block.
GetUnlink(t) ==
    /\ task[t].pc = "get_unlink"
    /\ LET path == get_cache_path(kind, task[t].inp)
       IN IF path \notin DOMAIN files
          THEN /\ task' = [task EXCEPT ![t] = Return(@, PyNone, TRUE)]
               /\ files' = files
          ELSE /\ task' = [task EXCEPT ![t] = Return(@, PyNone, FALSE)]
               /\ files' = Unlink(files, path)
    /\ UNCHANGED offered
    /\ ConcUnchanged

\* get: open, read and deserialise inside the try block; the read returns
\* what the file holds at that moment.
GetRead(t) ==
    /\ task[t].pc = "get_read"
    /\ LET path == get_cache_path(kind, task[t].inp)
           r == IF path \in DOMAIN files THEN load(kind, files[path].data) ELSE Failed
       IN task' = [task EXCEPT ![t] =
              Return(@, IF r.ok THEN r.val ELSE PyNone, FALSE)]
    /\ UNCHANGED <<files, offered>>
    /\ ConcUnchanged

\* set: the key, then open(cache_file, 'w'), which creates the file or
\* truncates the one that is there.  A get in progress on the same file
\* now overlaps this set.
SetBegin(t, inp, payload, ioOk) ==
    /\ CanCall(t)
    /\ LET rec == Start(t, "set", inp)
           path == get_cache_path(kind, inp)
           w == dump(kind, inp, payload, clock)
           holders == IF path \in DOMAIN files THEN files[path].writers ELSE {}
       IN IF key_raises(kind, inp)
          THEN /\ task' = [task EXCEPT ![t] = Return(rec, PyNone, TRUE)]
               /\ UNCHANGED <<files, offered>>
          ELSE IF ~ioOk
          THEN /\ task' = [task EXCEPT ![t] = Return(rec, PyNone, FALSE)]
               /\ UNCHANGED <<files, offered>>
          ELSE /\ files' = WriteFile(files, path,
                              [data |-> <<>>, mtime |-> clock, writers |-> holders \cup {t}])
               /\ offered' = offered \cup {[payload |-> payload, path |-> path]}
               /\ task' = [u \in Tasks |->
                     IF u = t THEN [rec EXCEPT !.pc = "set_write", !.todo = w.blocks]
                     ELSE IF task[u].op = "get" /\ task[u].pc # "idle"
                             /\ get_cache_path(kind, task[u].inp) = path
                          THEN [task[u] EXCEPT !.overlap = TRUE]
                          ELSE task[u]]
    /\ ConcUnchanged

\* set: one write call, at this caller's own file offset.  When the name
\* has been unlinked since the open, the blocks go to a file no name
\* reaches.
SetWrite(t) ==
    /\ task[t].pc = "set_write"
    /\ task[t].todo # <<>>
    /\ LET path == get_cache_path(kind, task[t].inp)
           n == write_size(kind, task[t].todo)
           blocks == SubSeq(task[t].todo, 1, n)
       IN /\ task' = [task EXCEPT ![t] =
                 [@ EXCEPT !.todo = SubSeq(@, n + 1, Len(@)), !.off = @ + n]]
          /\ files' = IF path \in DOMAIN files /\ t \in files[path].writers
                      THEN [files EXCEPT ![path] =
                               [@ EXCEPT !.data = PutAt(@, task[t].off, blocks),
                                         !.mtime = clock]]
                      ELSE files
    /\ UNCHANGED offered
    /\ ConcUnchanged

\* set: the with block closes the file and set returns.
SetClose(t) ==
    /\ task[t].pc = "set_write"
    /\ task[t].todo = <<>>
    /\ LET path == get_cache_path(kind, task[t].inp)
       IN files' = IF path \in DOMAIN files
                   THEN [files EXCEPT ![path] = [@ EXCEPT !.writers = @ \ {t}]]
                   ELSE files
    /\ task' = [task EXCEPT ![t] = Return(@, PyNone, FALSE)]
    /\ UNCHANGED offered
    /\ ConcUnchanged

\* One entry of a scan handled: the next one, or the method returns.
NextName(rec, pc) ==
    IF Len(rec.names) <= 1 THEN Return(rec, PyNone, FALSE)
    ELSE [rec EXCEPT !.pc = pc, !.names = Tail(@)]

\* clear_expired: current_time = time.time() and the directory scan.
ClearExpiredBegin(t, order) ==
    /\ CanCall(t)
    /\ task' = [task EXCEPT ![t] =
           IF order = <<>> THEN Return(Start(t, "clear_expired", NoInput), PyNone, FALSE)
           ELSE [Start(t, "clear_expired", NoInput) EXCEPT
                    !.pc = "ce_stat", !.names = order, !.now = clock]]
    /\ UNCHANGED <<files, offered>>
    /\ ConcUnchanged

\* clear_expired: cache_file.stat() of the next scanned name; there is no
\* try block, a name that is gone raises FileNotFoundError.
ClearExpiredStat(t) ==
    /\ task[t].pc = "ce_stat"
    /\ LET name == Head(task[t].names)
       IN task' = [task EXCEPT ![t] =
              IF name \notin DOMAIN files THEN Return(@, PyNone, TRUE)
              ELSE IF Expired(files[name], task[t].now, ttl)
                   THEN [@ EXCEPT !.pc = "ce_unlink"]
                   ELSE NextName(@, "ce_stat")]
    /\ UNCHANGED <<files, offered>>
    /\ ConcUnchanged

\* clear_expired: cache_file.unlink() of the expired entry.
ClearExpiredUnlink(t) ==
    /\ task[t].pc = "ce_unlink"
    /\ LET name == Head(task[t].names)
       IN IF name \notin DOMAIN files
          THEN /\ task' = [task EXCEPT ![t] = Return(@, PyNone, TRUE)]
               /\ files' = files
          ELSE /\ task' = [task EXCEPT ![t] = NextName(@, "ce_stat")]
               /\ files' = Unlink(files, name)
    /\ UNCHANGED offered
    /\ ConcUnchanged

\* clear_all: the directory scan.
ClearAllBegin(t, order) ==
    /\ CanCall(t)
    /\ task' = [task EXCEPT ![t] =
           IF order = <<>> THEN Return(Start(t, "clear_all", NoInput), PyNone, FALSE)
           ELSE [Start(t, "clear_all", NoInput) EXCEPT !.pc = "ca_unlink", !.names = order]]
    /\ UNCHANGED <<files, offered>>
    /\ ConcUnchanged

\* clear_all: cache_file.unlink() of the next scanned name, no try block.
ClearAllUnlink(t) ==
    /\ task[t].pc = "ca_unlink"
    /\ LET name == Head(task[t].names)
       IN IF name \notin DOMAIN files
          THEN /\ task' = [task EXCEPT ![t] = Return(@, PyNone, TRUE)]
               /\ files' = files
          ELSE /\ task' = [task EXCEPT ![t] = NextName(@, "ca_unlink")]
               /\ files' = Unlink(files, name)
    /\ UNCHANGED offered
    /\ ConcUnchanged

NextConc ==
    \/ Tick(MaxConcTime)
    \/ \E t \in Tasks, inp \in ConcInputs(kind) : GetBegin(t, inp)
    \/ \E t \in Tasks : GetStat(t)
    \/ \E t \in Tasks : GetUnlink(t)
    \/ \E t \in Tasks : GetRead(t)
    \/ \E t \in Tasks, inp \in ConcInputs(kind), payload \in ConcPayloads(kind),
          ioOk \in BOOLEAN : SetBegin(t, inp, payload, ioOk)
    \/ \E t \in Tasks : SetWrite(t)
    \/ \E t \in Tasks : SetClose(t)
    \/ \E t \in Tasks, order \in ScanOrders(Glob(files, kind)) : ClearExpiredBegin(t, order)
    \/ \E t \in Tasks : ClearExpiredStat(t)
    \/ \E t \in Tasks : ClearExpiredUnlink(t)
    \/ \E t \in Tasks, order \in ScanOrders(Glob(files, kind)) : ClearAllBegin(t, order)
    \/ \E t \in Tasks : ClearAllUnlink(t)

SpecConc == Init /\ [][NextConc]_vars

\* ------------------------------------------- the three global instances
\* The lookups and the payload used with each global instance.
DirInputs(k) == ConcInputs(k)
DirPayload(k) == IF k = "parse" THEN PyStr("# A") ELSE PyList(<<PyInt("1"), PyStr("x")>>)

\* The process starts: the environment fixes the directory of each
\* instance, every directory is empty.
InitDirs ==
    /\ kind = "embedding"
    /\ ttl = 0
    /\ clock = 0
    /\ files = NoFiles
    /\ last = NoCall
    /\ cleared = [removed |-> 0, on |-> FALSE]
    /\ task = [t \in Tasks |-> Idle]
    /\ offered = {}
    /\ cache_dir \in [Kinds -> Dirs]
    /\ disk = [d \in Dirs |-> NoFiles]
    /\ owner = [d \in Dirs |-> NoFiles]
    /\ did = NoDirCall
    /\ NoEnrich
    /\ NoPdf
    /\ NoHttp

DirUnchanged ==
    UNCHANGED <<kind, ttl, files, last, cleared, task, offered, cache_dir, enrichvars,
                pdfvars, httpvars>>

\* The history of who wrote what follows the directory: names that are
\* gone lose their owner.
OwnersOf(old, fs) == [p \in DOMAIN fs |-> old[p]]

\* get_X_cache().get(...)
DirGet(k, inp) ==
    LET d == cache_dir[k]
        r == Cache_get(disk[d], k, DefaultTTL[k], clock, inp)
    IN /\ disk' = [disk EXCEPT ![d] = r.files]
       /\ owner' = [owner EXCEPT ![d] = OwnersOf(@, r.files)]
       /\ did' = DirCall(k, "get", inp, r.res, r.raised)
       /\ UNCHANGED clock
       /\ DirUnchanged

\* get_X_cache().set(...); as in Set, the write takes a tick.
DirSet(k, inp, payload, ioOk) ==
    LET d == cache_dir[k]
        r == Cache_set(disk[d], k, clock, inp, payload, ioOk)
        wrote == ~r.raised /\ ioOk
    IN /\ clock < MaxTime
       /\ clock' = clock + 1
       /\ disk' = [disk EXCEPT ![d] = r.files]
       /\ owner' = [owner EXCEPT ![d] =
                       [p \in DOMAIN r.files |->
                           IF wrote /\ p = get_cache_path(k, inp) THEN k ELSE @[p]]]
       /\ did' = DirCall(k, "set", inp, PyNone, r.raised)
       /\ DirUnchanged

\* get_X_cache().clear_expired()
DirClearExpired(k, order) ==
    LET d == cache_dir[k]
        fs == Cache_clear_expired(disk[d], order, DefaultTTL[k], clock)
    IN /\ disk' = [disk EXCEPT ![d] = fs]
       /\ owner' = [owner EXCEPT ![d] = OwnersOf(@, fs)]
       /\ did' = DirCall(k, "clear_expired", NoInput, PyNone, FALSE)
       /\ UNCHANGED clock
       /\ DirUnchanged

\* get_X_cache().clear_all()
DirClearAll(k, order) ==
    LET d == cache_dir[k]
        fs == Cache_clear_all(disk[d], order)
    IN /\ disk' = [disk EXCEPT ![d] = fs]
       /\ owner' = [owner EXCEPT ![d] = OwnersOf(@, fs)]
       /\ did' = DirCall(k, "clear_all", NoInput, PyNone, FALSE)
       /\ UNCHANGED clock
       /\ DirUnchanged

\* cleanup_caches(): clear_expired of the embedding, the chunk and the
\* parse instance, in that order, each scanning its directory as the one
\* before left it.
DirCleanup ==
    \E o1 \in ScanOrders(Glob(disk[cache_dir["embedding"]], "embedding")) :
      LET d1 == cache_dir["embedding"]
          disk1 == [disk EXCEPT ![d1] =
                       Cache_clear_expired(@, o1, DefaultTTL["embedding"], clock)]
          d2 == cache_dir["chunk"]
      IN \E o2 \in ScanOrders(Glob(disk1[d2], "chunk")) :
           LET disk2 == [disk1 EXCEPT ![d2] =
                            Cache_clear_expired(@, o2, DefaultTTL["chunk"], clock)]
               d3 == cache_dir["parse"]
           IN \E o3 \in ScanOrders(Glob(disk2[d3], "parse")) :
                /\ disk' = [disk2 EXCEPT ![d3] =
                               Cache_clear_expired(@, o3, DefaultTTL["parse"], clock)]
                /\ owner' = [d \in Dirs |-> OwnersOf(owner[d], disk'[d])]
                /\ did' = DirCall("all", "cleanup", NoInput, PyNone, FALSE)
                /\ UNCHANGED clock
                /\ DirUnchanged

NextDirs ==
    \/ DirCleanup
    \/ Tick(MaxTime)
    \/ \E k \in Kinds : \E inp \in DirInputs(k) : DirGet(k, inp)
    \/ \E k \in Kinds : \E inp \in DirInputs(k), ioOk \in BOOLEAN :
          DirSet(k, inp, DirPayload(k), ioOk)
    \/ \E k \in Kinds : \E order \in ScanOrders(Glob(disk[cache_dir[k]], k)) :
          DirClearExpired(k, order)
    \/ \E k \in Kinds : \E order \in ScanOrders(Glob(disk[cache_dir[k]], k)) :
          DirClearAll(k, order)

SpecDirs == InitDirs /\ [][NextDirs]_vars

\* ------------------------------------------------- enrich_metadata calls
\* enrich_metadata(chunks, strategy, original_text, schema_field_names) is
\* called: enriched = [], current_headings = {}.  The loop reads chunk i
\* only in iteration i, so the chunks are drawn as the loop takes them.
InitEnrich ==
    /\ kind = "embedding"
    /\ ttl = 0
    /\ clock = 0
    /\ files = NoFiles
    /\ last = NoCall
    /\ cleared = [removed |-> 0, on |-> FALSE]
    /\ task = [t \in Tasks |-> Idle]
    /\ offered = {}
    /\ cache_dir = DefaultDir
    /\ disk = [d \in Dirs |-> NoFiles]
    /\ owner = [d \in Dirs |-> NoFiles]
    /\ did = NoDirCall
    /\ strategy \in Strategies
    /\ schema \in Schemas
    /\ total \in 0..MaxChunks
    /\ chunks = <<>>
    /\ idx = 0
    /\ current_headings = NoFields
    /\ enriched = <<>>
    /\ extracted = NoExtract
    /\ first = <<>>
    /\ round = 1
    /\ NoPdf
    /\ NoHttp

EnrichUnchanged ==
    UNCHANGED <<kind, ttl, clock, files, last, cleared, task, offered, dirvars,
                strategy, schema, total, pdfvars, httpvars>>

\* The body of the for loop, for the chunk at position idx.
Iterate(chunk) ==
    /\ enriched' = Append(enriched,
                          enrich_chunk(chunk, idx, total, strategy, schema, current_headings))
    /\ current_headings' = next_context(chunk, strategy, current_headings)
    /\ extracted' = extract_call(chunk, strategy)
    /\ idx' = idx + 1

\* An iteration of the first call.
EnrichNext(chunk) ==
    /\ round = 1
    /\ idx < total
    /\ Iterate(chunk)
    /\ chunks' = Append(chunks, chunk)
    /\ UNCHANGED <<first, round>>
    /\ EnrichUnchanged

\* The first call has returned enriched; enrich_metadata is called on it
\* with the same strategy and schema.
EnrichAgain ==
    /\ round = 1
    /\ idx = total
    /\ first' = enriched
    /\ chunks' = enriched
    /\ round' = 2
    /\ idx' = 0
    /\ enriched' = <<>>
    /\ current_headings' = NoFields
    /\ extracted' = NoExtract
    /\ EnrichUnchanged

\* An iteration of the second call.
EnrichAgainNext ==
    /\ round = 2
    /\ idx < total
    /\ Iterate(chunks[idx + 1])
    /\ UNCHANGED <<chunks, first, round>>
    /\ EnrichUnchanged

NextEnrich ==
    \/ \E chunk \in Chunks : EnrichNext(chunk)
    \/ EnrichAgain
    \/ EnrichAgainNext

SpecEnrich == InitEnrich /\ [][NextEnrich]_vars

\* ------------------------------------------------------ parse_pdf requests
\* Mutant of parse_pdf: the cache is not consulted.
parse_pdf_uncached(fs, T, now, content, config, api_key, engine, ioOk) ==
    LET page_count == get_pdf_page_count(content)
        cfg == resolve_config(config)
        lookup == In(hash_file(content), "llamaparse", cfg)
    IN IF NoKey(api_key)
       THEN PdfResult(fs, "ValueError", PyNone, 0, NoInput, FALSE, FALSE, PyNone, FALSE, FALSE)
       ELSE IF ~engine.ok
       THEN PdfResult(fs, "EngineError", PyNone, 0, lookup, FALSE, TRUE, cfg, FALSE, FALSE)
       ELSE LET w == Cache_set(fs, "parse", now, lookup, engine.markdown, ioOk)
            IN PdfResult(w.files, "", engine.markdown, page_count, lookup, FALSE, TRUE,
                         cfg, TRUE, w.res)

\* Mutant of parse_pdf: the cache is looked up before the API key is checked.
parse_pdf_cache_first(fs, T, now, content, config, api_key, engine, ioOk) ==
    LET page_count == get_pdf_page_count(content)
        cfg == resolve_config(config)
        lookup == In(hash_file(content), "llamaparse", cfg)
        cached == Cache_get(fs, "parse", T, now, lookup)
    IN IF cached.res # PyNone
       THEN PdfResult(cached.files, "", cached.res, page_count, lookup, TRUE, FALSE,
                      PyNone, FALSE, FALSE)
       ELSE IF NoKey(api_key)
       THEN PdfResult(cached.files, "ValueError", PyNone, 0, lookup, TRUE, FALSE, PyNone,
                      FALSE, FALSE)
       ELSE IF ~engine.ok
       THEN PdfResult(cached.files, "EngineError", PyNone, 0, lookup, TRUE, TRUE, cfg,
                      FALSE, FALSE)
       ELSE LET w == Cache_set(cached.files, "parse", now, lookup, engine.markdown, ioOk)
            IN PdfResult(w.files, "", engine.markdown, page_count, lookup, TRUE, TRUE,
                         cfg, TRUE, w.res)

\* Mutant of parse_pdf: a failed parse is recorded in the cache.
parse_pdf_store_failed(fs, T, now, content, config, api_key, engine, ioOk) ==
    LET page_count == get_pdf_page_count(content)
        cfg == resolve_config(config)
        lookup == In(hash_file(content), "llamaparse", cfg)
        cached == Cache_get(fs, "parse", T, now, lookup)
    IN IF NoKey(api_key)
       THEN PdfResult(fs, "ValueError", PyNone, 0, NoInput, FALSE, FALSE, PyNone, FALSE, FALSE)
       ELSE IF cached.res # PyNone
       THEN PdfResult(cached.files, "", cached.res, page_count, lookup, TRUE, FALSE,
                      PyNone, FALSE, FALSE)
       ELSE LET w == Cache_set(cached.files, "parse", now, lookup,
                               IF engine.ok THEN engine.markdown ELSE PyNone, ioOk)
            IN IF ~engine.ok
               THEN PdfResult(w.files, "EngineError", PyNone, 0, lookup, TRUE, TRUE, cfg,
                              TRUE, FALSE)
               ELSE PdfResult(w.files, "", engine.markdown, page_count, lookup, TRUE, TRUE,
                              cfg, TRUE, w.res)

\* parse_pdf(file_path, config): content is what the file at file_path
\* holds, api_key the value of LLAMA_CLOUD_API_KEY, engine what LlamaParse
\* does if called, ioOk whether the cache file can be opened for writing.
parse_pdf(fs, T, now, content, config, api_key, engine, ioOk) ==
    LET page_count == get_pdf_page_count(content)
        cfg == resolve_config(config)
        lookup == In(hash_file(content), "llamaparse", cfg)
        cached == Cache_get(fs, "parse", T, now, lookup)
    IN IF NoKey(api_key)
       THEN PdfResult(fs, "ValueError", PyNone, 0, NoInput, FALSE, FALSE, PyNone, FALSE, FALSE)
       ELSE IF cached.res # PyNone
       THEN PdfResult(cached.files, "", cached.res, page_count, lookup, TRUE, FALSE,
                      PyNone, FALSE, FALSE)
       ELSE IF ~engine.ok
       THEN PdfResult(cached.files, "EngineError", PyNone, 0, lookup, TRUE, TRUE, cfg,
                      FALSE, FALSE)
       ELSE LET w == Cache_set(cached.files, "parse", now, lookup, engine.markdown, ioOk)
            IN PdfResult(w.files, "", engine.markdown, page_count, lookup, TRUE, TRUE,
                         cfg, TRUE, w.res)

\* The config arguments (None, a valid mapping, one with an unknown key
\* beside a valid field, and one with a wrongly typed value beside a valid
\* field), the (content, config) pairs callers pass, the values of
\* LLAMA_CLOUD_API_KEY and what the engine may do.
PdfConfigs ==
    {PyNone,
     Cfg1("language", PyStr("fr")),
     Cfg2("language", PyStr("fr"), "bogus", PyInt("1")),
     Cfg2("disable_ocr", PyInt("5"), "language", PyStr("fr"))}
PdfArgs == {<<"pdf1", config>> : config \in PdfConfigs} \cup {<<"pdf2", PyNone>>}
ApiKeys == {PyNone, PyStr(""), PyStr("k")}
Engines == {Engine(FALSE, PyNone)} \cup {Engine(TRUE, m) : m \in Markdowns}

\* What the environment does during a call: the API key, what LlamaParse
\* does, whether the cache file opens.  Every engine outcome with the key
\* set, every key with a working engine, and a cache file that cannot be
\* opened.
PdfEnvs ==
    {<<PyStr("k"), engine, TRUE>> : engine \in Engines}
    \cup {<<api_key, Engine(TRUE, PyStr("# A")), TRUE>> : api_key \in ApiKeys}
    \cup {<<PyStr("k"), Engine(TRUE, PyStr("# A")), FALSE>>}

InitPdf ==
    /\ kind = "parse"
    /\ ttl \in {0, MaxTTL}
    /\ clock = 0
    /\ files = NoFiles
    /\ last = NoCall
    /\ cleared = [removed |-> 0, on |-> FALSE]
    /\ task = [t \in Tasks |-> Idle]
    /\ offered = {}
    /\ cache_dir = DefaultDir
    /\ disk = [d \in Dirs |-> NoFiles]
    /\ owner = [d \in Dirs |-> NoFiles]
    /\ did = NoDirCall
    /\ NoEnrich
    /\ NoPdf
    /\ NoHttp

\* What a call did, without the directory it left.
Did(r) ==
    [markdown |-> r.markdown, raised |-> r.raised, called |-> r.called,
     page_count |-> r.page_count, lookup |-> r.lookup, read |-> r.read, options |-> r.options,
     set |-> r.set, stored |-> r.stored]

\* A call of parse_pdf runs to its end.  As in Set, a write takes a tick.
PdfCall(content, config, api_key, engine, ioOk) ==
    \E r \in {parse_pdf(files, ttl, clock, content, config, api_key, engine, ioOk)} :
       /\ r.set => clock < MaxPdfTime
       /\ clock' = IF r.set THEN clock + 1 ELSE clock
       /\ files' = r.files
       /\ req' = PdfCallRec(content, config, ~NoKey(api_key), Did(r), 1 - req.seq)
       /\ UNCHANGED <<kind, ttl, last, cleared, task, offered, dirvars, enrichvars,
                      httpvars>>

\* get_parse_cache().clear_all(), called by someone else.
PdfClearAll(order) ==
    /\ files' = Cache_clear_all(files, order)
    /\ UNCHANGED <<kind, ttl, clock, last, cleared, task, offered, dirvars, enrichvars,
                   pdfvars, httpvars>>

NextPdf ==
    \/ Tick(MaxPdfTime)
    \/ \E args \in PdfArgs, env \in PdfEnvs :
          PdfCall(args[1], args[2], env[1], env[2], env[3])
    \/ \E order \in ScanOrders(Glob(files, kind)) : PdfClearAll(order)

SpecPdf == InitPdf /\ [][NextPdf]_vars

\* ------------------------------------------------- the endpoints of main.py
\* An uploaded file: file.filename (None is the empty name) and its bytes.
Upload(filename, content) == [content |-> content, filename |-> filename]

Uploads ==
    {Upload("a.pdf", "pdf1"), Upload("A.PDF", "pdf1"), Upload("a.docx", "docx1"),
     Upload("", "pdf1")}

\* os.path.splitext(file.filename or "document")[1].lower()
file_ext(filename) ==
    CASE filename = "a.pdf" -> ".pdf"
      [] filename = "A.PDF" -> ".pdf"
      [] filename = "a.docx" -> ".docx"
      [] OTHER -> ""

\* json.loads of a form field: the value whose JSON text it is, or that
\* JSONDecodeError is raised.
JsonValues ==
    {Cfg1("language", PyStr("fr")), Cfg2("language", PyStr("fr"), "bogus", PyInt("1"))}
json_loads(text) ==
    LET vs == {v \in JsonValues : json_dumps(v, FALSE) = text}
    IN IF vs = {} THEN Failed ELSE Loaded(CHOOSE v \in vs : TRUE)

\* The config form field: absent, empty, a JSON object, a broken text.
ConfigForms ==
    {PyNone, PyStr(""), PyStr(json_dumps(Cfg1("language", PyStr("fr")), FALSE)), PyStr("{")}

\* parse_config: None unless config is a non-empty text json.loads accepts.
form_config(config) ==
    IF config = PyNone \/ config.s = "" THEN PyNone
    ELSE IF json_loads(config.s).ok THEN json_loads(config.s).val ELSE PyNone

\* What the environment does during a request: whether file.read() and
\* tmp_file.write() succeed, the API key, what LlamaParse does, whether
\* MarkItDown or Docling convert the file, whether the cache file opens.
Env(readOk, writeOk, api_key, engine, localOk, ioOk) ==
    [ioOk |-> ioOk, api_key |-> api_key, engine |-> engine, readOk |-> readOk,
     writeOk |-> writeOk, localOk |-> localOk]

Envs ==
    {Env(TRUE, TRUE, PyStr("k"), Engine(TRUE, PyStr("# A")), TRUE, TRUE),
     Env(FALSE, TRUE, PyStr("k"), Engine(TRUE, PyStr("# A")), TRUE, TRUE),
     Env(TRUE, FALSE, PyStr("k"), Engine(TRUE, PyStr("# A")), TRUE, TRUE),
     Env(TRUE, TRUE, PyNone, Engine(TRUE, PyStr("# A")), TRUE, TRUE),
     Env(TRUE, TRUE, PyStr("k"), Engine(FALSE, PyNone), FALSE, TRUE),
     Env(TRUE, TRUE, PyStr("k"), Engine(TRUE, PyStr("# A")), TRUE, FALSE)}

\* What a handler did: the cache directory it left, the status code, the
\* temp files it created and those it left on disk, the parser function
\* given the temp file, whether LlamaParse was invoked and whether the
\* parse cache was written.
HttpResult(fs, status, created, left, parser, engine, set) ==
    [files |-> fs, set |-> set, status |-> status, created |-> created,
     parser |-> parser, engine |-> engine, left |-> left]

\* The with block of both handlers: NamedTemporaryFile(delete=False)
\* creates the file, then the upload is read and written into it;
\* tmp_file_path is bound only if both succeed.
saved(env) == env.readOk /\ env.writeOk

\* The with block raised: the created file stays, the outer except
\* answers 500.
unsaved(fs) == HttpResult(fs, 500, 1, 1, "none", FALSE, FALSE)

\* The inner try of a handler that calls parse_pdf, and its finally.
with_parse_pdf(fs, T, now, content, config, env) ==
    LET r == parse_pdf(fs, T, now, content, form_config(config), env.api_key,
                       env.engine, env.ioOk)
    IN HttpResult(r.files, IF r.raised = "" THEN 200 ELSE 500, 1, 0, "parse_pdf",
                  r.called, r.set)

\* The inner try of /parse with parse_with_markitdown or
\* parse_with_docling, and its finally.
with_local(fs, parser, env) ==
    HttpResult(fs, IF env.localOk THEN 200 ELSE 500, 1, 0, parser, FALSE, FALSE)

\* POST /parse-pdf
parse_pdf_endpoint(fs, T, now, upload, config, env) ==
    IF ~saved(env) THEN unsaved(fs)
    ELSE with_parse_pdf(fs, T, now, upload.content, config, env)

\* The validation of parser method and file type.
rejects(parser_method, ext) == parser_method = "llamaparse" /\ ext # ".pdf"

\* POST /parse
parse_document(fs, T, now, upload, config, parser_method, env) ==
    IF rejects(parser_method, file_ext(upload.filename))
    THEN HttpResult(fs, 400, 0, 0, "none", FALSE, FALSE)
    ELSE IF ~saved(env) THEN unsaved(fs)
    ELSE IF parser_method = "docling" THEN with_local(fs, "parse_with_docling", env)
    ELSE IF parser_method = "markitdown" THEN with_local(fs, "parse_with_markitdown", env)
    ELSE with_parse_pdf(fs, T, now, upload.content, config, env)

\* The values of the parser_method form field: the three documented ones
\* and another text.
ParserMethods == {"llamaparse", "markitdown", "docling", "llama"}

InitHttp ==
    /\ kind = "parse"
    /\ ttl = MaxTTL
    /\ clock = 0
    /\ files = NoFiles
    /\ last = NoCall
    /\ cleared = [removed |-> 0, on |-> FALSE]
    /\ task = [t \in Tasks |-> Idle]
    /\ offered = {}
    /\ cache_dir = DefaultDir
    /\ disk = [d \in Dirs |-> NoFiles]
    /\ owner = [d \in Dirs |-> NoFiles]
    /\ did = NoDirCall
    /\ NoEnrich
    /\ NoPdf
    /\ NoHttp

\* A request has been answered with what the handler did.  As in Set, a
\* write to the cache takes a tick.
Answer(endpoint, parser_method, suffix, r) ==
    /\ served < MaxRequests
    /\ served' = served + 1
    /\ clock' = IF r.set THEN clock + 1 ELSE clock
    /\ files' = r.files
    /\ tmp_left' = tmp_left + r.left
    /\ resp' = HttpRec(endpoint, parser_method, suffix, r.status, r.created > 0,
                       r.parser, r.engine)
    /\ UNCHANGED <<kind, ttl, last, cleared, task, offered, dirvars, enrichvars, pdfvars>>

ParsePdfRequest(upload, config, env) ==
    Answer("/parse-pdf", "", ".pdf",
           parse_pdf_endpoint(files, ttl, clock, upload, config, env))

ParseRequest(upload, config, parser_method, env) ==
    Answer("/parse", parser_method, file_ext(upload.filename),
           parse_document(files, ttl, clock, upload, config, parser_method, env))

NextHttp ==
    \/ \E upload \in Uploads, config \in ConfigForms, env \in Envs :
          ParsePdfRequest(upload, config, env)
    \/ \E upload \in Uploads, config \in ConfigForms, env \in Envs :
          \E parser_method \in ParserMethods :
             ParseRequest(upload, config, parser_method, env)

SpecHttp == InitHttp /\ [][NextHttp]_vars

\* ================================================================ claims
\* The lookups that have a key: json.dumps accepts their configuration.
ValidInputs(k) == {inp \in Inputs(k) : ~key_raises(k, inp)}

Path(inp) == get_cache_path(kind, inp)
Age(name) == clock - files[name].mtime

\* C1 as stated: in every namespace and for every TTL >= 0, a get that
\* follows at once a set of the same inputs whose write succeeded returns
\* the supported payload that set was given.
C1_RoundTripAnyTTL ==
    [][\A inp \in ValidInputs(kind) :
          (/\ last.op = "set" /\ last.ok /\ SameInput(last.inp, inp)
           /\ Supported(kind, last.arg)
           /\ Get(inp))
          => last'.res = last.arg]_vars

\* C1 amended: the same, provided the entry's age when get reads the clock
\* does not exceed the TTL (a set takes time, so a TTL of zero never does).
C1_RoundTripWithinTTL ==
    [][\A inp \in ValidInputs(kind) :
          (/\ last.op = "set" /\ last.ok /\ SameInput(last.inp, inp)
           /\ Supported(kind, last.arg)
           /\ Age(Path(inp)) <= ttl
           /\ Get(inp))
          => last'.res = last.arg]_vars

\* A get returned the payload of the set it followed at once.
C1_Witness ==
    /\ last.op = "get" /\ last.prev # NoInput
    /\ last.res # PyNone /\ Supported(kind, last.res)

\* C2: a get for an entry that a set wrote, while the entry's age has not
\* passed the TTL, keeps the namespace as it is and returns the payload
\* stored; once the age is past the TTL it returns empty and the entry is
\* gone when it returns.
C2_TTLExpiry ==
    [][last'.op = "get" =>
       \A inp \in {last'.inp} \cap ValidInputs(kind) :
          LET p == Path(inp)
          IN (p \in DOMAIN files /\ files[p].src.ok /\ Get(inp))
             => IF Age(p) <= ttl
                THEN /\ files' = files
                     /\ Supported(kind, files[p].src.val) => last'.res = files[p].src.val
                ELSE /\ last'.res = PyNone
                     /\ p \notin DOMAIN files']_vars

\* A get hit an entry whose age is exactly the TTL.
C2_Witness ==
    /\ last.op = "get" /\ last.res # PyNone
    /\ Path(last.inp) \in DOMAIN files
    /\ Age(Path(last.inp)) = ttl

\* C3 as stated: whatever the interleaving of get, set, clear_expired and
\* clear_all calls made by concurrent callers on one namespace, no call
\* raises to its caller.
C3_NoCallRaises == \A t \in Tasks : ~task[t].raised

\* C4 as stated: a get that overlapped a set of the same key returned
\* either empty or a payload that some set was given for that key, never a
\* mixture of payloads.
C4_GetSeesWholePayload ==
    \A t \in Tasks :
        (task[t].op = "get" /\ task[t].pc = "idle" /\ task[t].overlap
         /\ ~task[t].raised /\ task[t].res # PyNone)
        => [payload |-> task[t].res, path |-> get_cache_path(kind, task[t].inp)] \in offered

\* C5: a get for an unexpired entry that an incomplete dump left behind
\* (content that cannot be deserialised) returns empty, does not raise and
\* leaves the namespace exactly as it was.
C5_CorruptIsMiss ==
    [][last'.op = "get" =>
       \A inp \in {last'.inp} \cap ValidInputs(kind) :
          LET p == Path(inp)
          IN (p \in DOMAIN files /\ ~files[p].src.ok /\ Age(p) <= ttl /\ Get(inp))
             => (last'.res = PyNone /\ ~last'.raised /\ files' = files)]_vars

\* A get has just missed on an unexpired corrupt entry, which is still there.
C5_Witness ==
    /\ last.op = "get" /\ last.res = PyNone /\ ~last.raised /\ last.removed = 0
    /\ Path(last.inp) \in DOMAIN files
    /\ ~files[Path(last.inp)].src.ok
    /\ Age(Path(last.inp)) <= ttl

\* C6 as stated: no call of set raises to its caller, whatever the lookup
\* inputs (any configuration mapping) and the payload.
C6_SetNeverRaises == last.op = "set" => ~last.raised

\* C7 as stated: a get returns a payload only from an entry that a set
\* wrote for the same lookup inputs (distinct inputs have distinct keys).
C7_NoCrossInputHit ==
    (last.op = "get" /\ last.res # PyNone)
    => (Path(last.inp) \in DOMAIN files /\ SameInput(files[Path(last.inp)].by, last.inp))

\* C8: in the chunk-result and parse-result namespaces two lookups whose
\* configurations hold the same pairs, in any order at any depth, have the
\* same key, and a get made with one ordering at once after a set made with
\* the other finds the entry that set wrote.
C8_KeyOrderIndependent ==
    kind # "embedding" =>
       /\ \A i1, i2 \in ValidInputs(kind) :
             SameInput(i1, i2) => cache_key(kind, i1) = cache_key(kind, i2)
       /\ (last.op = "get" /\ last.prev \notin {NoInput, last.inp})
          => (last.res # PyNone \/ last.removed = 1)

\* A get hit the entry written under the other ordering of its configuration.
C8_Witness ==
    /\ kind # "embedding"
    /\ last.op = "get" /\ last.prev \notin {NoInput, last.inp}
    /\ last.res # PyNone

\* The entries of fs whose age at time now has not passed T.
Survivors(fs, T, now) == [n \in {m \in DOMAIN fs : now - fs[m].mtime <= T} |-> fs[n]]

\* C9: clear_expired at time t leaves exactly the entries whose age at t has
\* not passed the TTL, unchanged, whatever the scan order; a second run at
\* the same t changes nothing, and no get at t evicts a surviving entry.
C9_ClearExpired ==
    [][\A order \in ScanOrders(Glob(files, kind)) :
          ClearExpired(order)
          => /\ files' = Survivors(files, ttl, clock)
             /\ \A again \in ScanOrders(Glob(files', kind)) :
                   Cache_clear_expired(files', again, ttl, clock) = files'
             /\ \A inp \in ValidInputs(kind) :
                   Cache_get(files', kind, ttl, clock, inp).files = files']_vars

\* clear_expired has deleted an entry and kept another.
C9_Witness == last.op = "clear_expired" /\ last.removed >= 1 /\ files # NoFiles

\* C10: from clear_all until the next call of set the namespace holds no
\* entry, every lookup returns empty, get_size reports (0, 0), and a
\* further clear_all changes nothing.
C10_ClearAll ==
    /\ [](cleared.on =>
            /\ files = NoFiles
            /\ (last.op = "get" /\ ~last.raised) => last.res = PyNone
            /\ last.op = "get_size" => (last.n = 0 /\ last.size = 0))
    /\ [][\A order \in ScanOrders(Glob(files, kind)) :
             (ClearAll(order) /\ cleared.on) => files' = files]_vars

\* A lookup ran after clear_all had deleted two entries.
C10_Witness ==
    /\ cleared.on /\ cleared.removed >= 2
    /\ last.op = "get" /\ ~last.raised

\* C11: in a namespace whose TTL is zero, a get for a key that has an entry
\* (any set wrote it earlier, the one just before included) returns empty
\* and the entry is gone when the get returns.
C11_ZeroTTLEvicts ==
    [][\A inp \in ValidInputs(kind) :
          (ttl = 0 /\ Path(inp) \in DOMAIN files /\ Get(inp))
          => (last'.res = PyNone /\ ~last'.raised /\ Path(inp) \notin DOMAIN files')]_vars

\* With TTL zero, the get that followed a set at once deleted its entry.
C11_Witness ==
    /\ ttl = 0
    /\ last.op = "get" /\ last.prev # NoInput
    /\ last.res = PyNone /\ last.removed = 1

\* C12: a get that hits, and a get for a key that has no entry, leave the
\* namespace as it was (same entries, same content, same modification
\* times); and no get changes an entry it leaves in place, so the instant
\* at which an entry expires stays the one its last set fixed.
C12_ReadsChangeNothing ==
    [][\A inp \in ValidInputs(kind) :
          Get(inp)
          => /\ (Path(inp) \notin DOMAIN files \/ last'.res # PyNone) => files' = files
             /\ \A p \in DOMAIN files' : p \in DOMAIN files /\ files'[p] = files[p]]_vars

\* A get hit an entry that is older than when it was written, beside
\* another entry of the namespace.
C12_Witness ==
    /\ last.op = "get" /\ last.res # PyNone /\ last.removed = 0
    /\ Cardinality(DOMAIN files) >= 2
    /\ Age(Path(last.inp)) >= 1

\* C13 as stated: whatever directories the environment gives the three
\* namespaces, a call made on one namespace leaves every entry that
\* another namespace wrote in place and unchanged, and a get returns a
\* payload only from an entry of its own namespace.
C13_NamespaceOwnsEntries ==
    [][/\ \A d \in Dirs : \A p \in DOMAIN disk[d] :
             (did'.ns \in Kinds /\ owner[d][p] # did'.ns)
                => (p \in DOMAIN disk'[d] /\ disk'[d][p] = disk[d][p])
       /\ (did'.op = "get" /\ did'.res # PyNone)
          => LET d == cache_dir[did'.ns]
                 p == get_cache_path(did'.ns, did'.inp)
             IN p \in DOMAIN disk[d] /\ owner[d][p] = did'.ns]_vars

\* ------------------------------------------------ claims on enrichment
\* The chunk the last iteration took, the chunk it appended to enriched,
\* and whether the strategy is one of those that keep a heading context.
LastIn == chunks[idx]
LastOut == enriched[idx]
Contextual == strategy \notin {"by_heading", "hierarchical"}

\* The heading texts of a context joined in ascending level order.
context_path(context) ==
    LET levels == SelectSeq([l \in Levels |-> l], LAMBDA l : l \in DOMAIN context)
    IN join_path([i \in 1..Len(levels) |-> context[levels[i]]])

\* Every level of the context is in the chunk just processed, with the
\* context's text.
ContextLevelsWritten ==
    \A N \in DOMAIN current_headings :
        /\ heading_key(N) \in DOMAIN LastOut.metadata
        /\ LastOut.metadata[heading_key(N)] = current_headings[N]

\* C14 as stated: with a contextual strategy and no schema, the chunk just
\* processed has heading_N equal to the context's text for every level N
\* of the running context, and a chunk whose text has no heading, coming
\* after chunks that left a trail, has no heading_N but those of the trail
\* and the section_path of the trail.
C14_TrailCarriedForward ==
    (idx > 0 /\ Contextual /\ ~schema.given) =>
        /\ ContextLevelsWritten
        /\ (extracted.meta = NoFields /\ current_headings # NoFields) =>
              /\ DOMAIN LastOut.metadata \cap HeadingKeys
                     = {heading_key(N) : N \in DOMAIN current_headings}
              /\ "section_path" \in DOMAIN LastOut.metadata
              /\ LastOut.metadata["section_path"] = context_path(current_headings)

\* C15: with a contextual strategy, an iteration on a chunk whose text
\* yields a heading at level L leaves a context that maps L to the heading
\* text, holds no level deeper than L, and holds the levels above L that it
\* held before, with their values; an iteration on a chunk without a
\* heading leaves the context as it was.
C15_HeadingContextInvariant ==
    [][(Contextual /\ idx' = idx + 1) =>
          LET found == extracted'.meta
          IN IF found = NoFields THEN current_headings' = current_headings
             ELSE LET L == found["heading_level"]
                  IN /\ L \in DOMAIN current_headings'
                     /\ current_headings'[L] = found[heading_key(L)]
                     /\ \A l \in DOMAIN current_headings' : l <= L
                     /\ \A l \in 1..(L - 1) :
                           /\ l \in DOMAIN current_headings' <=> l \in DOMAIN current_headings
                           /\ l \in DOMAIN current_headings
                                  => current_headings'[l] = current_headings[l]]_vars

\* A level-1 heading has just closed the level-2 section "B" that the
\* chunk before it was in.
C15_Witness ==
    /\ Contextual /\ ~schema.given /\ round = 1
    /\ idx >= 2
    /\ "heading_2" \in DOMAIN enriched[idx - 1].metadata
    /\ enriched[idx - 1].metadata["heading_2"] = "B"
    /\ extracted.meta # NoFields
    /\ extracted.meta["heading_level"] = 1
    /\ DOMAIN current_headings = {1}

\* C16 as stated: with a contextual strategy and a schema that admits
\* section_path (none, or a set holding it), whenever the context is not
\* empty after a chunk is processed, the chunk's section_path is the
\* context's heading texts joined in ascending level order with " > ".
C16_SectionPathFromContext ==
    (/\ idx > 0
     /\ Contextual
     /\ should_include_field(schema, "section_path")
     /\ current_headings # NoFields) =>
        /\ "section_path" \in DOMAIN LastOut.metadata
        /\ LastOut.metadata["section_path"] = context_path(current_headings)

\* C17: with a schema set S given, every metadata key of the chunk just
\* processed that its input lacked, or whose value differs from the
\* input's, is in S, and no key of the input is lost; with
\* S = {token_count} the call introduces token_count and nothing else.
C17_WritesWithinSchema ==
    (idx > 0 /\ schema.given) =>
        LET old == LastIn.metadata
            new == LastOut.metadata
        IN /\ DOMAIN old \subseteq DOMAIN new
           /\ \A f \in DOMAIN new :
                 (f \notin DOMAIN old \/ new[f] # old[f]) => f \in schema.names
           /\ schema.names = {"token_count"} =>
                 DOMAIN new = DOMAIN old \cup {"token_count"}

\* A chunk with a heading, after a chunk that left a context, was
\* processed under the schema {token_count} and got its token count.
C17_Witness ==
    /\ idx >= 2 /\ round = 1
    /\ schema.given /\ schema.names = {"token_count"}
    /\ Contextual
    /\ extracted.meta # NoFields
    /\ "token_count" \notin DOMAIN LastIn.metadata
    /\ "token_count" \in DOMAIN LastOut.metadata

\* The section_path of a chunk, or that it has none.
section_path_of(chunk) ==
    IF "section_path" \in DOMAIN chunk.metadata
    THEN <<chunk.metadata["section_path"]>> ELSE <<>>

\* C18: with strategy by_heading, the call on the result of a first call
\* gives every chunk the section_path the first call gave it, and a chunk
\* that comes in with a section_path goes out with that same one.
C18_ByHeadingIdempotent ==
    (idx > 0 /\ strategy = "by_heading") =>
        /\ round = 2 => section_path_of(LastOut) = section_path_of(first[idx])
        /\ section_path_of(LastIn) # <<>> => section_path_of(LastOut) = section_path_of(LastIn)

\* The second call has processed a chunk whose section_path "Z" the first
\* call had built from its heading_2.
C18_Witness ==
    /\ strategy = "by_heading"
    /\ round = 2
    /\ idx > 0
    /\ section_path_of(first[idx]) = <<"Z">>
    /\ section_path_of(LastOut) = <<"Z">>

\* The first n lines of a text.
first_lines(text, n) == SubSeq(text, 1, IF Len(text) < n THEN Len(text) ELSE n)

\* What the claim expects of a text whose lines to look at are `lines`:
\* the level and text of the first heading among them, or nothing.
expected_heading(lines, meta) ==
    /\ (\A i \in 1..Len(lines) : ~is_heading(lines[i])) => meta = NoFields
    /\ \A i \in 1..Len(lines) :
          (is_heading(lines[i]) /\ \A j \in 1..(i - 1) : ~is_heading(lines[j]))
              => /\ DOMAIN meta = {"heading_level", heading_key(lines[i].hashes)}
                 /\ meta["heading_level"] = lines[i].hashes
                 /\ meta[heading_key(lines[i].hashes)] = lines[i].text

\* C19 as stated: extraction answers with the first markdown heading among
\* the first 5 lines of the chunk's text, and with no field when none of
\* those lines is a heading.
C19_FirstFiveLines ==
    extracted.called =>
        expected_heading(first_lines(extracted.text, HeadingScanLines), extracted.meta)

\* C19, amended: the lines looked at are the first 5 of the text once the
\* white space it starts and ends with is removed.
C19_FirstFiveStrippedLines ==
    extracted.called =>
        expected_heading(first_lines(strip_split(extracted.text), HeadingScanLines),
                         extracted.meta)

\* Extraction was asked about a text whose sixth line is a heading and
\* whose first five are not, and answered with no field.
C19_Witness ==
    /\ extracted.called
    /\ Len(extracted.text) > HeadingScanLines
    /\ extracted.text[1] # BlankLine
    /\ is_heading(extracted.text[HeadingScanLines + 1])
    /\ extracted.meta = NoFields

PdfStep == req'.seq # req.seq
EntryPath(content, config) ==
    get_cache_path("parse", In(hash_file(content), "llamaparse", resolve_config(config)))
LiveAt(path) ==
    /\ path \in DOMAIN files
    /\ files[path].src.ok
    /\ ~Expired(files[path], clock, ttl)
LiveEntry(content, config) == LiveAt(EntryPath(content, config))

\* What C21 says of a call: with a live entry for its content and config it
\* returns the stored markdown without calling the engine; it calls the
\* engine only on a miss; it writes only after the engine succeeded, and
\* what it stores is the entry of its content and config.
ServedFromCache ==
    \A path \in {EntryPath(req'.content, req'.config)} : \A live \in {LiveAt(path)} :
       /\ req'.res.set => (req'.res.called /\ req'.res.raised = "")
       /\ req'.res.called => (req'.res.read /\ ~live)
       /\ live => /\ req'.res.raised = ""
                   /\ ~req'.res.called
                   /\ req'.res.markdown = files[path].src.val
                   /\ files' = files
       /\ (path \in DOMAIN files' /\ (path \notin DOMAIN files \/ files'[path] # files[path]))
          => (req'.res.set /\ req'.res.raised = "")
       /\ req'.res.stored
          => (path \in DOMAIN files' /\ files'[path].src = Loaded(req'.res.markdown))

\* C21 as stated: every call of parse_pdf made while the entry of its
\* content and config is live returns the stored markdown and does not
\* call the engine; the engine is called only on a miss and its result
\* stored only after it succeeded.
C21_LiveEntryServes ==
    [][PdfStep => ServedFromCache]_vars

\* C21, amended: the same for the calls made with the API key set.
C21_LiveEntryServesWithKey ==
    [][(PdfStep /\ req'.has_key) => ServedFromCache]_vars

\* A call with a config of its own was answered from the cache.
C21_Witness ==
    /\ req.has_key
    /\ req.config = Cfg1("language", PyStr("fr"))
    /\ req.res.read /\ ~req.res.called
    /\ req.res.raised = ""
    /\ req.res.markdown \in Markdowns

\* C22: a call of parse_pdf made without the API key raises ValueError,
\* does not call the engine, does not read the cache and leaves every
\* entry as it was.
C22_NoKeyFailsFast ==
    [][(PdfStep /\ ~req'.has_key) =>
          /\ req'.res.raised = "ValueError"
          /\ ~req'.res.called
          /\ ~req'.res.read
          /\ ~req'.res.set
          /\ files' = files]_vars

\* A call without the key has failed while its file and config have a
\* live entry.
C22_Witness ==
    /\ req.seq = 1
    /\ ~req.has_key
    /\ req.res.raised = "ValueError"
    /\ LiveEntry(req.content, req.config)

\* C23: when the engine raises, the call raises, has not called cache.set,
\* and leaves the directory as its cache lookup left it: every file but
\* the entry of the call is untouched, that entry is untouched or, having
\* expired, was deleted by the lookup, and no live entry answers for the
\* call; the next call with the same arguments calls the engine again.
C23_EngineFailureNotCached ==
    [][/\ (PdfStep /\ req'.res.raised = "EngineError") =>
             \A path \in {EntryPath(req'.content, req'.config)} :
                /\ req'.res.called
                /\ ~req'.res.set
                /\ \A p \in DOMAIN files \ {path} :
                      p \in DOMAIN files' /\ files'[p] = files[p]
                /\ DOMAIN files' \subseteq DOMAIN files
                /\ path \in DOMAIN files =>
                      IF Expired(files[path], clock, ttl) THEN path \notin DOMAIN files'
                      ELSE path \in DOMAIN files' /\ files'[path] = files[path]
       /\ (/\ PdfStep
           /\ req.res.raised = "EngineError"
           /\ req'.content = req.content
           /\ req'.config = req.config
           /\ req'.has_key) => req'.res.called]_vars

\* The engine has raised in a call made while the cache held entries.
C23_Witness ==
    /\ req.res.raised = "EngineError"
    /\ req.res.called
    /\ files # NoFiles

\* The configs callers pass that ParseConfig rejects: an unknown key, a
\* value of the wrong type; each also sets language to "fr".
InvalidConfigs ==
    {Cfg2("language", PyStr("fr"), "bogus", PyInt("1")),
     Cfg2("disable_ocr", PyInt("5"), "language", PyStr("fr"))}

\* C24: a call with the API key set and a config that fails validation
\* does not fail for it; it looks the cache up under the key of the default
\* configuration and, when it calls the engine, passes the default options,
\* so the language the caller asked for is not used.
C24_InvalidConfigIsDefault ==
    [][(PdfStep /\ req'.has_key /\ req'.config \in InvalidConfigs) =>
          /\ req'.res.raised \in {"", "EngineError"}
          /\ req'.res.read
          /\ req'.res.lookup = In(hash_file(req'.content), "llamaparse", DEFAULT_PARSE_CONFIG)
          /\ req'.res.lookup = Did(parse_pdf(files, ttl, clock, req'.content, PyNone,
                                             PyStr("k"), Engine(FALSE, PyNone), TRUE)).lookup
          /\ req'.res.called =>
                /\ req'.res.options = DEFAULT_PARSE_CONFIG
                /\ DictGet(req'.res.options.d, "language") = PyStr("en")]_vars

\* A call with an invalid config has returned markdown.
C24_Witness ==
    /\ req.config \in InvalidConfigs
    /\ req.has_key
    /\ req.res.raised = ""
    /\ req.res.markdown \in Markdowns

\* ---------------------------------------------- claims on cleanup_caches
\* C25 as stated: cleanup_caches does not raise, and when it returns every
\* entry whose age exceeded the TTL of the namespace that wrote it is gone
\* and every other entry is in place, unchanged.
C25_CleanupRemovesExpired ==
    [][(did'.op = "cleanup" /\ clock' = clock) =>
          /\ ~did'.raised
          /\ \A d \in Dirs : \A p \in DOMAIN disk[d] :
                IF Expired(disk[d][p], clock, DefaultTTL[owner[d][p]])
                THEN p \notin DOMAIN disk'[d]
                ELSE p \in DOMAIN disk'[d] /\ disk'[d][p] = disk[d][p]]_vars

\* ------------------------------------------------ claims on failed writes
\* What a get of inp returns from the files fs at time now.
Served(fs, now, inp) == Cache_get(fs, kind, ttl, now, inp).res

\* C27 as stated: a set that returns without having written its entry
\* completely (the file could not be opened, or the payload could not be
\* serialised) leaves the namespace as it was: every get that follows
\* returns what it would have returned without the set, and no file that
\* cannot be read has appeared or replaced a readable one.
C27_FailedSetLeavesNamespace ==
    [][(last'.op = "set" /\ clock' # clock /\ ~last'.raised /\ ~last'.ok) =>
          /\ \A inp \in Inputs(kind) :
                Served(files', clock', inp) = Served(files, clock', inp)
          /\ \A f \in DOMAIN files' :
                ~load(kind, files'[f].data).ok
                   => (f \in DOMAIN files /\ ~load(kind, files[f].data).ok)]_vars

\* ------------------------------------------- claims on repeated enrichment
\* C28: for every strategy and schema, enrich_metadata applied to its own
\* result gives every chunk the metadata the first application gave it.
C28_EnrichIdempotent ==
    (round = 2 /\ idx > 0) => LastOut.metadata = first[idx].metadata

\* The second application has processed a chunk that carries no heading of
\* its own and to which the first application gave the heading context of
\* an earlier chunk and a section_path.
C28_Witness ==
    /\ round = 2
    /\ idx >= 2
    /\ Contextual
    /\ extract_heading_metadata(LastIn.text) = NoFields
    /\ "section_path" \in DOMAIN first[idx].metadata
    /\ "token_count" \in DOMAIN first[idx].metadata
    /\ LastOut.metadata = first[idx].metadata

\* ---------------------------------------------------- claims on the endpoints
\* The parser methods /parse hands to LlamaParse: every one that is neither
\* "docling" nor "markitdown".
HandledByLlamaParse(parser_method) == parser_method \notin {"docling", "markitdown"}

\* C26 as stated: /parse answers 400 to every upload whose extension is
\* not .pdf when the parser method is one LlamaParse handles, without
\* having created a temp file, called parse_pdf or invoked the engine.
C26_NonPdfNeverReachesLlamaParse ==
    (resp.endpoint = "/parse" /\ HandledByLlamaParse(resp.parser_method)
     /\ resp.suffix # ".pdf")
        => (resp.status = 400 /\ ~resp.created /\ resp.parser = "none" /\ ~resp.engine)

\* C29 as stated: when a request has been answered, no temp file that
\* /parse or /parse-pdf created is left on disk.
C29_TempFilesDeleted == tmp_left = 0

====
